---- MODULE Spec2Model ----
(***************************************************************************)
(* Verification model of the landslide-monitoring ingestion pipeline:      *)
(* the GNSS origin-locking processor (processors/gnss_processor.py), the   *)
(* water and rain engines (processors/water_processor.py), the IMU engine  *)
(* (processors/imu_processor.py), the risk analyzer                        *)
(* (app/landslide_analyzer.py), the orchestrator (mqtt_bridge.py) with its *)
(* selective write path, topic reconciliation and shutdown, and the        *)
(* broadcast hub (app/websocket.py).                                       *)
(*                                                                         *)
(* Each component has its own specification (SpecGnss, SpecWater, ...)     *)
(* over the shared variable list; a component's specification leaves the   *)
(* variables of the other components at their constructed values.          *)
(*                                                                         *)
(* Numbers.  Python floats are modelled in fixed point:                    *)
(*   - GNSS positions are integer metres on the local tangent plane; a     *)
(*     centroid (np.mean of required_points values) is kept as the SUM of  *)
(*     the values, i.e. in units of 1/required_points metre;               *)
(*   - GNSS wall-clock time is in ticks of 5 ms, so 0.01 s is 2 ticks;     *)
(*   - water levels are in units of 0.0001 m, rain and intensity in units  *)
(*     of 0.001 mm, so round(x, 3) and round(x, 2) are real roundings.     *)
(***************************************************************************)
EXTENDS Integers, Sequences, FiniteSets, TLC

VARIABLES
    \* ---- GNSSVelocityProcessor (one device) ----
    state,              \* self.state
    origin,             \* self.origin
    origin_candidates,  \* self.origin_candidates
    history,            \* self.history (deque, maxlen filter_window_size + 1)
    stats,              \* self.stats
    load_task,          \* the task created by _schedule_load_origin
    load_row,           \* origin_record, the row that task's query returned
    save_tasks,         \* number of _save_origin_to_db tasks created and not yet run
    db_origin,          \* the GNSSOrigin row of the device in the config store
    now,                \* time.time(), in ticks of 5 ms
    result,             \* what the last process_gngga call returned
    call_state,         \* self.state when that call was entered
    run,                \* accepted candidates and their events since the list was last empty
    lock_origin,        \* the origin computed when origin_locked was emitted
    nframes,            \* frames delivered so far
    \* ---- WaterEngine ----
    water_history,      \* self.history (deque, maxlen history_size)
    last_valid_value,   \* self.last_valid_value
    water_result,       \* what the last WaterEngine.process call returned
    water_log,          \* the (payload, timestamp) pairs process was called with
    \* ---- RainEngine ----
    rain_history,       \* self.history (deque, maxlen history_size)
    last_valid_rainfall,   \* self.last_valid_rainfall
    last_valid_intensity,  \* self.last_valid_intensity, as a fraction num/den
    rain_result,        \* what the last RainEngine.process call returned
    rain_call,          \* the arguments of that call and history[-1] as it found it
    rain_now,           \* the timestamp the orchestrator passes, in seconds
    rain_calls,         \* calls made so far
    \* ---- IMUEngine ----
    last_valid_data,    \* self.last_valid_data
    imu_result,         \* what the last IMUEngine.process call returned
    imu_call,           \* the payload of that call and last_valid_data as it found it
    imu_calls,          \* calls made so far
    \* ---- shutdown of the two processes ----
    bridge_proc,        \* MQTTBridge.run: its position, the event loop, its tasks, the client
    web_proc,           \* the process serving the hub and its flush task
    \* ---- LandslideAnalyzer ----
    station_config,     \* the station's config dict (Station.config)
    an_log,             \* the analyzer calls made: sensor type, record, returned alert
    an_last,            \* the last call made with an unchecked input, and what it returned
    \* ---- MQTTBridge.process_pipeline ----
    pl_now,             \* int(time.time()), in seconds
    last_save_time,     \* self.last_save_time, by sensor type (one station)
    tasks,              \* the process_pipeline coroutines in flight
    station_status,     \* Station.last_update / status and Device.last_data_time in the config store
    sensor_rows,        \* committed rows of sensor_data
    alert_rows,         \* committed rows of alerts
    pl_frames,          \* frames handed to process_pipeline so far
    mq_queue,           \* the coroutines on_message scheduled that have not started
    process_log,        \* the frames in the order their processor was called
    \* ---- ConnectionManager (the broadcast hub) ----
    active_connections, \* self.active_connections
    observers,          \* the state of each observer's websocket
    last_broadcast_time,   \* self.last_broadcast_time of the station's status key
    message_buffer,     \* self.message_buffer, in key insertion order
    buffer_task,        \* self.buffer_task: the flush loop's position and wake-up time
    dispatches,         \* the _send_to_all calls in flight
    delivered,          \* per observer, the messages sent to it and when
    hub_now,            \* time.time(), in ticks of 0.5 s
    hub_calls,          \* the messages broadcast was called with
    \* ---- MQTTBridge topic reconciliation ----
    topic_map,          \* the keys of self.topic_map
    db_topics,          \* the topics the stations of the config store declare
    reload_task,        \* reload_topics_from_db: its position and the map it built
    broker_subs,        \* the topics the broker holds a subscription for
    mqtt_connected,     \* whether the client is connected to the broker
    on_connect_pending, \* the topics a running on_connect has still to subscribe
    reload_passes,      \* reconciliation passes completed
    processors_cache,   \* self.processors_cache: the processor instance of each key
    topic_procs         \* self.topic_map[topic]['processor'] of each bound topic

gnss_vars == <<state, origin, origin_candidates, history, stats, load_task,
               load_row, save_tasks, db_origin, now, result, call_state, run,
               lock_origin, nframes>>

water_vars == <<water_history, last_valid_value, water_result, water_log>>

rain_vars == <<rain_history, last_valid_rainfall, last_valid_intensity, rain_result,
               rain_call, rain_now, rain_calls>>

imu_vars == <<last_valid_data, imu_result, imu_call, imu_calls>>

shutdown_vars == <<bridge_proc, web_proc>>

analyzer_vars == <<station_config, an_log, an_last>>

pipeline_vars == <<pl_now, last_save_time, tasks, station_status, sensor_rows,
                   alert_rows, pl_frames, mq_queue, process_log>>

hub_vars == <<active_connections, observers, last_broadcast_time, message_buffer,
              buffer_task, dispatches, delivered, hub_now, hub_calls>>

reload_vars == <<topic_map, db_topics, reload_task, broker_subs, mqtt_connected,
                 on_connect_pending, reload_passes, processors_cache, topic_procs>>

vars == <<gnss_vars, water_vars, rain_vars, analyzer_vars, pipeline_vars, hub_vars, reload_vars,
    imu_vars, shutdown_vars>>

not_gnss == <<water_vars, rain_vars, analyzer_vars, pipeline_vars, hub_vars, reload_vars,
    imu_vars, shutdown_vars>>
not_water == <<gnss_vars, rain_vars, analyzer_vars, pipeline_vars, hub_vars, reload_vars,
    imu_vars, shutdown_vars>>
not_rain == <<gnss_vars, water_vars, analyzer_vars, pipeline_vars, hub_vars, reload_vars,
    imu_vars, shutdown_vars>>
not_analyzer == <<gnss_vars, water_vars, rain_vars, pipeline_vars, hub_vars, reload_vars,
    imu_vars, shutdown_vars>>
\* the pipeline reads station_config and leaves the analyzer's log alone
not_pipeline == <<gnss_vars, water_vars, rain_vars, analyzer_vars, hub_vars, reload_vars,
    imu_vars, shutdown_vars>>
not_hub == <<gnss_vars, water_vars, rain_vars, analyzer_vars, pipeline_vars, reload_vars,
    imu_vars, shutdown_vars>>
not_reload == <<gnss_vars, water_vars, rain_vars, analyzer_vars, pipeline_vars, hub_vars,
    imu_vars, shutdown_vars>>
not_imu == <<gnss_vars, water_vars, rain_vars, analyzer_vars, pipeline_vars, hub_vars,
    reload_vars, shutdown_vars>>
not_shutdown == <<gnss_vars, water_vars, rain_vars, analyzer_vars, pipeline_vars, hub_vars,
    reload_vars, imu_vars>>

(***************************************************************************)
(* Bounds of the model.                                                    *)
(***************************************************************************)
\* required_points and filter_window_size are constructor parameters
\* (defaults 5 and 5); the model runs the processor configured smaller.
RequiredPoints == 3
FilterWindowSize == 3
MaxFrames == 5

(***************************************************************************)
(* Program constants.                                                      *)
(***************************************************************************)
MaxSpreadM == 5       \* max_spread_m = 5.0
MinFixQuality == 4    \* min_fix_quality = 4
MinDtTicks == 2       \* dt < 0.01 (s), in 5 ms ticks

(***************************************************************************)
(* GNSS: frames                                                            *)
(***************************************************************************)
None == [type |-> "None"]
\* self.origin = None
NoOrigin == [set |-> FALSE, lat |-> 0, lon |-> 0, h |-> 0, R |-> <<>>, ecef |-> <<>>]

\* WGS-84 fixes the frames can carry (metres on the local tangent plane).
Points == { [lat |-> 0, lon |-> 0, h |-> 0],
            [lat |-> 3, lon |-> 1, h |-> 0],
            [lat |-> 60, lon |-> 0, h |-> 3] }

\* A frame is what raw_payload.split(',') gives:
\*   nparts_ok : at least 10 fields and fields 2 and 4 not empty
\*   q_ok      : field 6 is empty or a text int() accepts
\*   q         : the value of field 6 (0 for an empty field)
\*   coords_ok : fields 2, 4, 7, 8, 9 parse as numbers
\*   wgs       : the fix the coordinates decode to
Frames ==
    { [nparts_ok |-> FALSE, q_ok |-> TRUE, q |-> 4, coords_ok |-> TRUE, wgs |-> [lat |-> 0, lon |-> 0, h |-> 0]],
      [nparts_ok |-> TRUE, q_ok |-> FALSE, q |-> 4, coords_ok |-> TRUE, wgs |-> [lat |-> 0, lon |-> 0, h |-> 0]] }
    \cup
    { [nparts_ok |-> TRUE, q_ok |-> TRUE, q |-> qq, coords_ok |-> FALSE, wgs |-> [lat |-> 0, lon |-> 0, h |-> 0]]
        : qq \in {0, 4} }
    \cup
    { [nparts_ok |-> TRUE, q_ok |-> TRUE, q |-> qq, coords_ok |-> TRUE, wgs |-> p]
        : qq \in {3, 4}, p \in Points }

DtChoices == {1, 2}

\* _parse_gngga: the point of a frame, or None.  int(parts[6]) is evaluated
\* inside the try block, so a non-integer quality field gives None as well.
_parse_gngga(f) ==
    IF ~f.nparts_ok \/ ~f.coords_ok \/ ~f.q_ok
    THEN None
    ELSE [type |-> "point", wgs |-> f.wgs, fix_quality |-> f.q]

(***************************************************************************)
(* GNSS: geodesy.  The trigonometry is abstracted injectively: a rotation  *)
(* matrix is determined by (lat0, lon0), an ECEF vector by (lat, lon, h).  *)
(***************************************************************************)
_get_rotation_matrix(lat0, lon0) == <<"R", lat0, lon0>>

_gngga_to_ecef(lat, lon, h) == <<"ecef", lat, lon, h>>

RECURSIVE SumOf(_, _)
SumOf(s, fld) ==
    IF s = <<>> THEN 0
    ELSE (CASE fld = "lat" -> Head(s).lat
            [] fld = "lon" -> Head(s).lon
            [] OTHER -> Head(s).h) + SumOf(Tail(s), fld)

Centroid_last(cands) ==
    [lat |-> Len(cands) * cands[Len(cands)].lat,
     lon |-> Len(cands) * cands[Len(cands)].lon,
     h |-> Len(cands) * cands[Len(cands)].h]

\* np.mean over the candidates, in units of 1/Len(cands) metre.
Centroid(cands) ==
    [lat |-> SumOf(cands, "lat"), lon |-> SumOf(cands, "lon"), h |-> SumOf(cands, "h")]

\* haversine_3d(center, p) squared, in units of (1/n metre)^2, where the
\* centre is given in units of 1/n metre.  For the metre-scale distances of
\* an origin lock the great-circle distance is the tangent-plane distance.
haversine_3d_sq(c, p, n) ==
    (n * p.lat - c.lat) * (n * p.lat - c.lat)
    + (n * p.lon - c.lon) * (n * p.lon - c.lon)
    + (n * p.h - c.h) * (n * p.h - c.h)

\* max_dist <= self.max_spread_m
SpreadOk(cands) ==
    LET n == Len(cands)
        c == Centroid(cands)
    IN \A i \in 1..n :
          haversine_3d_sq(c, cands[i], n) <= (MaxSpreadM * n) * (MaxSpreadM * n)

OriginOf(c) ==
    [set |-> TRUE, lat |-> c.lat, lon |-> c.lon, h |-> c.h,
     R |-> _get_rotation_matrix(c.lat, c.lon),
     ecef |-> _gngga_to_ecef(c.lat, c.lon, c.h)]

\* deque(maxlen = filter_window_size + 1).append
DequeAppend(d, x, maxlen) ==
    IF Len(d) >= maxlen THEN Append(Tail(d), x) ELSE Append(d, x)

(***************************************************************************)
(* GNSS: the persisted origin row                                          *)
(***************************************************************************)
NoRow == [present |-> FALSE, lat |-> 0, lon |-> 0, h |-> 0, rotation_matrix |-> <<>>, ecef_origin |-> <<>>]

RowOf(o) ==
    [present |-> TRUE, lat |-> o.lat, lon |-> o.lon, h |-> o.h,
     rotation_matrix |-> o.R, ecef_origin |-> o.ecef]

\* An origin stored by an earlier run of the process (units of 1/RequiredPoints m).
StoredOrigin == OriginOf([lat |-> 30, lon |-> 0, h |-> 3])

\* Rows the store can hold at construction: none, a complete one, one whose
\* rotation_matrix is NULL, one whose ecef_origin is NULL.
InitialRows ==
    { NoRow,
      RowOf(StoredOrigin),
      [RowOf(StoredOrigin) EXCEPT !.rotation_matrix = <<>>],
      [RowOf(StoredOrigin) EXCEPT !.ecef_origin = <<>>] }

RowUsable_matrix_only(row) == row.rotation_matrix # <<>>

\* if origin_record.rotation_matrix and origin_record.ecef_origin
RowUsable(row) == row.rotation_matrix # <<>> /\ row.ecef_origin # <<>>

(***************************************************************************)
(* GNSS: process_gngga and its two handlers                                *)
(***************************************************************************)
GnssConstructed ==
    /\ state = "AWAITING_CANDIDATES"
    /\ origin = NoOrigin
    /\ origin_candidates = <<>>
    /\ history = <<>>
    /\ stats = [total_processed |-> 0, low_quality_rejected |-> 0, origin_resets |-> 0]
    \* _schedule_load_origin: a task inside a running loop, nothing outside one
    /\ load_task \in {"scheduled", "not_scheduled"}
    /\ load_row = NoRow
    /\ save_tasks = 0
    /\ db_origin \in InitialRows
    /\ now = 0
    /\ result = None
    /\ call_state = "AWAITING_CANDIDATES"
    /\ run = <<>>
    /\ lock_origin = NoOrigin
    /\ nframes = 0

LockedResult_processed(c) ==
    [type |-> "gnss_processed", lat |-> c.lat, lon |-> c.lon, h |-> c.h]

\* return {"type": "origin_locked", "data": {lat, lon, h}}
LockedResult(c) ==
    [type |-> "origin_locked", lat |-> c.lat, lon |-> c.lon, h |-> c.h]

\* self.origin_candidates.clear()
CandidatesAfterReset_kept(cands) == cands

CandidatesAfterReset(cands) == <<>>

HandlerFor_collect(st) ==
    IF st \in {"AWAITING_CANDIDATES", "ORIGIN_LOCKED"} THEN "collect" ELSE "none"

\* the handler process_gngga dispatches to for a state
HandlerFor(st) ==
    IF st = "AWAITING_CANDIDATES" THEN "collect"
    ELSE IF st = "ORIGIN_LOCKED" THEN "process"
    ELSE "none"

\* fix_quality = int(parts[6]) if parts[6] else 0
FixQuality(f) == f.q

_handle_origin_collection(f) ==
    IF FixQuality(f) < MinFixQuality
    THEN /\ stats' = [stats EXCEPT !.low_quality_rejected = @ + 1]
         /\ result' = [type |-> "origin_status", status |-> "WAITING_FOR_QUALITY"]
         /\ UNCHANGED <<state, origin, origin_candidates, history, save_tasks, run, lock_origin>>
    ELSE IF _parse_gngga(f) = None
    THEN /\ result' = None
         /\ UNCHANGED <<state, origin, origin_candidates, history, stats, save_tasks, run, lock_origin>>
    ELSE
      LET cands == Append(origin_candidates, f.wgs)
          c == Centroid(cands)
          res == IF Len(cands) < RequiredPoints
                 THEN [type |-> "origin_collecting", count |-> Len(cands), target |-> RequiredPoints]
                 ELSE IF SpreadOk(cands) THEN LockedResult(c)
                 ELSE [type |-> "origin_reset"]
      IN /\ result' = res
         /\ run' = (IF origin_candidates = <<>> THEN <<>> ELSE run)
                     \o << [wgs |-> f.wgs, res |-> res] >>
         /\ IF Len(cands) < RequiredPoints
            THEN /\ origin_candidates' = cands
                 /\ UNCHANGED <<state, origin, history, stats, save_tasks, lock_origin>>
            ELSE IF SpreadOk(cands)
            THEN /\ origin_candidates' = cands
                 /\ origin' = OriginOf(c)
                 /\ lock_origin' = OriginOf(c)
                 /\ state' = "ORIGIN_LOCKED"
                 /\ save_tasks' = save_tasks + 1
                 /\ UNCHANGED <<history, stats>>
            ELSE /\ origin_candidates' = CandidatesAfterReset(cands)
                 /\ stats' = [stats EXCEPT !.origin_resets = @ + 1]
                 /\ UNCHANGED <<state, origin, history, save_tasks, lock_origin>>

\* The velocity reported for the current buffer, as the set of the adjacent
\* pairs (i-1, i), named by i, whose velocities are averaged: the pairs with
\* dt >= 0.01 once len(history) >= filter_window_size, else the last pair
\* alone (the raw velocity).
VelocityPairs(h) ==
    IF Len(h) >= FilterWindowSize
    THEN LET pairs == {i \in 2..Len(h) : h[i].ts - h[i-1].ts >= MinDtTicks}
         IN IF pairs # {} THEN pairs ELSE {Len(h)}
    ELSE {Len(h)}

_handle_processing(f) ==
    IF FixQuality(f) < MinFixQuality
    THEN /\ stats' = [stats EXCEPT !.low_quality_rejected = @ + 1]
         /\ result' = None
         /\ UNCHANGED <<state, origin, origin_candidates, history, save_tasks, run, lock_origin>>
    ELSE IF _parse_gngga(f) = None
    THEN /\ result' = None
         /\ UNCHANGED <<state, origin, origin_candidates, history, stats, save_tasks, run, lock_origin>>
    ELSE
      LET ts == now'
          h == DequeAppend(history,
                           [ts |-> ts,
                            ecef |-> _gngga_to_ecef(f.wgs.lat, f.wgs.lon, f.wgs.h),
                            wgs |-> f.wgs],
                           FilterWindowSize + 1)
      IN /\ history' = h
         /\ UNCHANGED <<state, origin, origin_candidates, save_tasks, run, lock_origin>>
         /\ IF Len(h) < 2 THEN result' = None /\ UNCHANGED stats
            ELSE IF h[Len(h)].ts - h[Len(h) - 1].ts < MinDtTicks
            THEN result' = None /\ UNCHANGED stats
            \* self.origin['R'] on origin None raises; process_gngga returns None
            ELSE IF ~origin.set THEN result' = None /\ UNCHANGED stats
            ELSE /\ stats' = [stats EXCEPT !.total_processed = @ + 1]
                 /\ result' = [type |-> "gnss_processed",
                               timestamp |-> ts,
                               lat |-> f.wgs.lat, lon |-> f.wgs.lon, h |-> f.wgs.h,
                               pos_e |-> RequiredPoints * f.wgs.lon - origin.lon,
                               pos_n |-> RequiredPoints * f.wgs.lat - origin.lat,
                               pos_u |-> RequiredPoints * f.wgs.h - origin.h,
                               vel |-> VelocityPairs(h),
                               fix_quality |-> f.q,
                               R |-> origin.R,
                               ecef_origin |-> origin.ecef]

process_gngga(f, d) ==
    /\ nframes < MaxFrames
    /\ nframes' = nframes + 1
    /\ now' = now + d
    /\ call_state' = state
    /\ UNCHANGED <<load_task, load_row, db_origin>>
    /\ UNCHANGED not_gnss
    /\ IF ~f.nparts_ok \/ ~f.q_ok
       \* too few fields, or int(parts[6]) raised
       THEN /\ result' = None
            /\ UNCHANGED <<state, origin, origin_candidates, history, stats, save_tasks, run, lock_origin>>
       ELSE IF HandlerFor(state) = "collect" THEN _handle_origin_collection(f)
       ELSE IF HandlerFor(state) = "process" THEN _handle_processing(f)
       ELSE /\ result' = None
            /\ UNCHANGED <<state, origin, origin_candidates, history, stats, save_tasks, run, lock_origin>>

ProcessFrame == \E f \in Frames, d \in DtChoices : process_gngga(f, d)

\* _async_load_origin_task.  The query returns the row (or none); leaving
\* the session block is a second suspension point before the row is used.
LoadedOrigin(row) ==
    [set |-> TRUE, lat |-> row.lat, lon |-> row.lon, h |-> row.h,
     R |-> row.rotation_matrix, ecef |-> row.ecef_origin]

LoadOriginQuery ==
    /\ load_task = "scheduled"
    /\ load_task' = "fetched"
    /\ load_row' = db_origin
    /\ UNCHANGED <<state, origin, origin_candidates, history, stats, save_tasks,
                   db_origin, now, result, call_state, run, lock_origin, nframes>>
    /\ UNCHANGED not_gnss

LoadOriginFound ==
    /\ load_task = "fetched"
    /\ load_row.present /\ RowUsable(load_row)
    /\ origin' = LoadedOrigin(load_row)
    /\ state' = "ORIGIN_LOCKED"
    /\ load_task' = "loaded"
    /\ UNCHANGED <<origin_candidates, history, stats, load_row, save_tasks, db_origin, now,
                   result, call_state, run, lock_origin, nframes>>
    /\ UNCHANGED not_gnss

LoadOriginUnusable ==
    /\ load_task = "fetched"
    /\ ~(load_row.present /\ RowUsable(load_row))
    /\ load_task' = (IF load_row.present THEN "no_matrix" ELSE "absent")
    /\ UNCHANGED <<state, origin, origin_candidates, history, stats, load_row, save_tasks,
                   db_origin, now, result, call_state, run, lock_origin, nframes>>
    /\ UNCHANGED not_gnss

\* the session or the query raised: logged, nothing else
LoadOriginFailed ==
    /\ load_task \in {"scheduled", "fetched"}
    /\ load_task' = "failed"
    /\ UNCHANGED <<state, origin, origin_candidates, history, stats, load_row, save_tasks,
                   db_origin, now, result, call_state, run, lock_origin, nframes>>
    /\ UNCHANGED not_gnss

\* _save_origin_to_db: upsert of the row from self.origin as it is when the task runs
SaveOriginDone ==
    /\ save_tasks > 0
    /\ save_tasks' = save_tasks - 1
    /\ db_origin' = RowOf(origin)
    /\ UNCHANGED <<state, origin, origin_candidates, history, stats, load_task, load_row, now,
                   result, call_state, run, lock_origin, nframes>>
    /\ UNCHANGED not_gnss

\* the session, the query or the commit raised: logged, row unchanged
SaveOriginFailed ==
    /\ save_tasks > 0
    /\ save_tasks' = save_tasks - 1
    /\ UNCHANGED <<state, origin, origin_candidates, history, stats, load_task, load_row,
                   db_origin, now, result, call_state, run, lock_origin, nframes>>
    /\ UNCHANGED not_gnss

(***************************************************************************)
(* JSON payload fields and Python's rounding                               *)
(***************************************************************************)
\* A field of a decoded JSON payload: absent (or null), a number, or a
\* non-empty text that float() rejects.
Absent == [kind |-> "absent", v |-> 0]
Text == [kind |-> "text", v |-> 0]
Num(x) == [kind |-> "num", v |-> x]

\* Python truthiness of a field value: None and 0 are falsy.
Truthy(x) == x.kind = "text" \/ (x.kind = "num" /\ x.v # 0)

\* a or b
PyOr(a, b) == IF Truthy(a) THEN a ELSE b

\* round(num/den, k): the multiple of m nearest to num/den (m is 10^-k in the
\* model's unit), ties to the even multiple.
RoundRat(num, den, m) ==
    LET q == num \div (den * m)
        r == num - q * den * m
    IN IF 2 * r < den * m THEN q * m
       ELSE IF 2 * r > den * m THEN (q + 1) * m
       ELSE IF q % 2 = 0 THEN q * m ELSE (q + 1) * m

(***************************************************************************)
(* WaterEngine.  Levels are in units of 0.0001 m.                          *)
(***************************************************************************)
WaterHistorySize == 2      \* history_size (constructor parameter, default 36)
MaxWaterCalls == 4

WaterValidMin == 0         \* valid_min = 0.0
WaterValidMax == 500000    \* valid_max = 50.0
WaterRoundUnit == 10       \* round(x, 3)

WaterFieldValues ==
    { Absent, Text, Num(0), Num(12344), Num(500000), Num(500001), Num(-10) }

WaterPayloads ==
    { [value |-> a, water_level |-> b] : a \in WaterFieldValues, b \in {Absent, Num(20000)} }

WaterConstructed ==
    /\ water_history = <<>>
    /\ last_valid_value = 0
    /\ water_result = None
    /\ water_log = <<>>

WaterFallback ==
    [water_level |-> RoundRat(last_valid_value, 1, WaterRoundUnit), is_fallback |-> TRUE]

\* val = payload.get("value") or payload.get("water_level")
WaterVal(payload) == PyOr(payload.value, payload.water_level)

WaterProcess(payload, timestamp) ==
    LET val == WaterVal(payload) IN
    /\ Len(water_log) < MaxWaterCalls
    /\ water_log' = Append(water_log, [payload |-> payload, timestamp |-> timestamp])
    /\ UNCHANGED not_water
    /\ IF val.kind = "absent"
       THEN water_result' = WaterFallback /\ UNCHANGED <<water_history, last_valid_value>>
       \* float(val) raises ValueError
       ELSE IF val.kind = "text"
       THEN water_result' = WaterFallback /\ UNCHANGED <<water_history, last_valid_value>>
       ELSE IF ~(WaterValidMin <= val.v /\ val.v <= WaterValidMax)
       THEN water_result' = WaterFallback /\ UNCHANGED <<water_history, last_valid_value>>
       ELSE /\ last_valid_value' = val.v
            /\ water_history' = DequeAppend(water_history, <<timestamp, val.v>>, WaterHistorySize)
            /\ water_result' = [water_level |-> RoundRat(val.v, 1, WaterRoundUnit),
                                is_fallback |-> FALSE]

WaterCall == \E payload \in WaterPayloads : WaterProcess(payload, Len(water_log) + 1)

(***************************************************************************)
(* RainEngine.  Rainfall is in units of 0.001 mm, intensity in units of    *)
(* 0.001 mm/h, time in seconds.  An intensity is kept as a fraction.       *)
(***************************************************************************)
RainHistorySize == 2       \* history_size (constructor parameter, default 60)
MaxRainCalls == 2

RainWindowSec == 3600      \* 0 < time_diff_sec < 3600, and the factor * 3600
RainRoundUnit == 10        \* round(x, 2)

RainPayloads ==
    { [rainfall_mm |-> Absent, intensity_mm_h |-> Absent],
      [rainfall_mm |-> Text, intensity_mm_h |-> Absent] }
    \cup
    { [rainfall_mm |-> Num(r), intensity_mm_h |-> i]
        : r \in {1000, 10000, 15000}, i \in {Absent, Text, Num(0), Num(12344)} }

RainDtChoices == {0, 7, 1800, 3600}

NoRainCall ==
    [payload |-> [rainfall_mm |-> Absent, intensity_mm_h |-> Absent], timestamp |-> 0,
     had_prev |-> FALSE, prev_time |-> 0, prev_rainfall |-> 0]

RainConstructed ==
    /\ rain_history = <<>>
    /\ last_valid_rainfall = 0
    /\ last_valid_intensity = [num |-> 0, den |-> 1]
    /\ rain_result = None
    /\ rain_call = NoRainCall
    /\ rain_now = 0
    /\ rain_calls = 0

RainFallback ==
    [rainfall_mm |-> RoundRat(last_valid_rainfall, 1, RainRoundUnit),
     intensity_mm_h |-> RoundRat(last_valid_intensity.num, last_valid_intensity.den, RainRoundUnit),
     is_fallback |-> TRUE]

DerivedIntensity_unguarded(rainfall_mm, timestamp, h) ==
    IF Len(h) > 0
    THEN [num |-> (rainfall_mm - h[Len(h)][2]) * RainWindowSec,
          den |-> IF timestamp - h[Len(h)][1] > 0 THEN timestamp - h[Len(h)][1] ELSE 1]
    ELSE [num |-> 0, den |-> 1]

\* the intensity computed when the device sends none (lines 77 to 83)
DerivedIntensity(rainfall_mm, timestamp, h) ==
    IF Len(h) > 0
    THEN LET prev_time == h[Len(h)][1]
             prev_rainfall == h[Len(h)][2]
             time_diff_sec == timestamp - prev_time
             rainfall_diff_mm == rainfall_mm - prev_rainfall
         IN IF 0 < time_diff_sec /\ time_diff_sec < RainWindowSec /\ rainfall_diff_mm >= 0
            THEN [num |-> rainfall_diff_mm * RainWindowSec, den |-> time_diff_sec]
            ELSE [num |-> 0, den |-> 1]
    ELSE [num |-> 0, den |-> 1]

RainProcess(payload, timestamp) ==
    LET val == payload.rainfall_mm
        intensity_input == payload.intensity_mm_h
        intensity == IF intensity_input.kind = "num"
                     THEN [num |-> intensity_input.v, den |-> 1]
                     ELSE DerivedIntensity(val.v, timestamp, rain_history)
    IN
    /\ rain_calls < MaxRainCalls
    /\ rain_calls' = rain_calls + 1
    /\ rain_now' = timestamp
    /\ rain_call' = [payload |-> payload, timestamp |-> timestamp,
                     had_prev |-> Len(rain_history) > 0,
                     prev_time |-> IF Len(rain_history) > 0
                                   THEN rain_history[Len(rain_history)][1] ELSE 0,
                     prev_rainfall |-> IF Len(rain_history) > 0
                                       THEN rain_history[Len(rain_history)][2] ELSE 0]
    /\ UNCHANGED not_rain
    /\ IF val.kind = "absent"
       THEN rain_result' = RainFallback
            /\ UNCHANGED <<rain_history, last_valid_rainfall, last_valid_intensity>>
       \* float(val) or float(intensity_input) raises ValueError
       ELSE IF val.kind = "text" \/ intensity_input.kind = "text"
       THEN rain_result' = RainFallback
            /\ UNCHANGED <<rain_history, last_valid_rainfall, last_valid_intensity>>
       ELSE /\ last_valid_rainfall' = val.v
            /\ last_valid_intensity' = intensity
            /\ rain_history' = DequeAppend(rain_history, <<timestamp, val.v>>, RainHistorySize)
            /\ rain_result' = [rainfall_mm |-> RoundRat(val.v, 1, RainRoundUnit),
                               intensity_mm_h |-> RoundRat(intensity.num, intensity.den, RainRoundUnit),
                               is_fallback |-> FALSE]

RainCall == \E payload \in RainPayloads, d \in RainDtChoices : RainProcess(payload, rain_now + d)

(***************************************************************************)
(* IMUEngine.  Accelerations and angular rates are in units of 0.001, the  *)
(* yaw in degrees.  roll and pitch, which process derives from the         *)
(* accelerations with atan2 when the frame has none, are left out; gy and  *)
(* gz are read the way gx is.                                              *)
(***************************************************************************)
MaxImuCalls == 2

ImuPayloads ==
    { [ax |-> a, accel_x |-> b, ay |-> c, accel_y |-> Absent, az |-> d, accel_z |-> Absent,
       gx |-> g, gyro_x |-> Absent, yaw |-> y] :
        a \in {Absent, Text, Num(0), Num(3000)}, b \in {Absent, Num(4000)},
        c \in {Absent, Num(0), Num(4000)}, d \in {Absent, Num(0), Num(12000)},
        g \in {Absent, Num(1000)}, y \in {Absent, Text, Num(90)} }

NoImuCall ==
    [payload |-> [ax |-> Absent, accel_x |-> Absent, ay |-> Absent, accel_y |-> Absent,
                  az |-> Absent, accel_z |-> Absent, gx |-> Absent, gyro_x |-> Absent,
                  yaw |-> Absent],
     before |-> [ax |-> 0, ay |-> 0, az |-> 0, gx |-> 0, yaw |-> 0, total_accel |-> 0]]

ImuConstructed ==
    /\ last_valid_data = [ax |-> 0, ay |-> 0, az |-> 9800, gx |-> 0, yaw |-> 0,
                          total_accel |-> 9800]
    /\ imu_result = None
    /\ imu_call = NoImuCall
    /\ imu_calls = 0

RECURSIVE SqrtSearch(_, _, _)
SqrtSearch(n, lo, hi) ==
    IF lo = hi THEN lo
    ELSE LET mid == (lo + hi + 1) \div 2
         IN IF mid * mid <= n THEN SqrtSearch(n, mid, hi) ELSE SqrtSearch(n, lo, mid - 1)

\* round(math.sqrt(n), 3) for n in units of 0.000001: the nearest integer
\* to the root, in units of 0.001
SqrtRound(n) ==
    LET r == SqrtSearch(n, 0, 46340) IN IF n - r * r > r THEN r + 1 ELSE r

\* payload.get(a) or payload.get(b) or self.last_valid_data[...]
ImuField(a, b, last) == PyOr(PyOr(a, b), Num(last))

ImuProcess(payload) ==
    LET ax == ImuField(payload.ax, payload.accel_x, last_valid_data.ax)
        ay == ImuField(payload.ay, payload.accel_y, last_valid_data.ay)
        az == ImuField(payload.az, payload.accel_z, last_valid_data.az)
        gx == ImuField(payload.gx, payload.gyro_x, last_valid_data.gx)
        yaw == IF payload.yaw.kind = "absent" THEN Num(last_valid_data.yaw) ELSE payload.yaw
        \* float(...) of a text raises ValueError
        raised == \E x \in {ax, ay, az, gx, yaw} : x.kind = "text"
        computed == [ax |-> ax.v, ay |-> ay.v, az |-> az.v, gx |-> gx.v, yaw |-> yaw.v,
                     total_accel |-> SqrtRound(ax.v * ax.v + ay.v * ay.v + az.v * az.v)]
    IN
    /\ imu_calls < MaxImuCalls
    /\ imu_calls' = imu_calls + 1
    /\ imu_call' = [payload |-> payload, before |-> last_valid_data]
    /\ UNCHANGED not_imu
    /\ IF raised
       \* return self.last_valid_data.copy()
       THEN imu_result' = last_valid_data /\ UNCHANGED last_valid_data
       ELSE imu_result' = computed /\ last_valid_data' = computed

ImuCall == \E payload \in ImuPayloads : ImuProcess(payload)

(***************************************************************************)
(* LandslideAnalyzer.  The analyzer has no fields: every method computes   *)
(* its alert from the latest record and the station's config.  Units:      *)
(* displacement in cm, rain intensity in 0.001 mm/h, water level in        *)
(* 0.0001 m, acceleration in 0.1 m/s^2, tilt in degrees.                   *)
(***************************************************************************)
MaxSamples == 3

\* the (section, key) pairs the analyzer reads from a station's config
CfgKeys ==
    { <<"RainAlerting", "rain_intensity_watch_threshold">>,
      <<"RainAlerting", "rain_intensity_warning_threshold">>,
      <<"RainAlerting", "rain_intensity_critical_threshold">>,
      <<"Water", "warning_threshold">>,
      <<"Water", "critical_threshold">>,
      <<"water", "warning_level">>,
      <<"water", "critical_level">>,
      <<"ImuAlerting", "shock_threshold_ms2">> }

\* config = {}
EmptyConfig == [k \in CfgKeys |-> Absent]

\* get_default_station_config()
DefaultConfig ==
    [k \in CfgKeys |->
        CASE k = <<"RainAlerting", "rain_intensity_watch_threshold">> -> Num(10000)
          [] k = <<"RainAlerting", "rain_intensity_warning_threshold">> -> Num(25000)
          [] k = <<"RainAlerting", "rain_intensity_critical_threshold">> -> Num(50000)
          [] k = <<"Water", "warning_threshold">> -> Num(15)
          [] k = <<"Water", "critical_threshold">> -> Num(30)
          [] k = <<"ImuAlerting", "shock_threshold_ms2">> -> Num(50)
          [] OTHER -> Absent]

\* a config an operator edited: water levels 2 m and 5 m, and a rain
\* warning threshold that is not a number
EditedConfig ==
    [k \in CfgKeys |->
        CASE k = <<"water", "warning_level">> -> Num(20000)
          [] k = <<"water", "critical_level">> -> Num(50000)
          [] k = <<"RainAlerting", "rain_intensity_warning_threshold">> -> Text
          [] OTHER -> DefaultConfig[k]]

StationConfigs == {EmptyConfig, DefaultConfig, EditedConfig}

\* float(config.get(section, {}).get(key, default)), default on ValueError/TypeError
_get_cfg(config, section, key, default) ==
    LET x == config[<<section, key>>] IN
    IF x.kind = "num" THEN x.v ELSE default

\* displacement in cm; speed_2d, where the record has one, in 1e-7 m/s
GnssRecords ==
    { [pos_e |-> e, pos_n |-> 0, pos_u |-> u] : e \in {0, 12, 30}, u \in {0, 9} }
    \cup { [pos_e |-> e, pos_n |-> 0, pos_u |-> 0, speed_2d |-> 1000000] : e \in {0, 30} }
RainRecords == { [intensity_mm_h |-> i] : i \in {5000, 25000, 60000} }
WaterRecords == { [water_level |-> w] : w \in {10000, 30000} }
ImuRecords ==
    { [total_accel |-> 98, roll |-> 0, pitch |-> 0],
      [total_accel |-> 98, roll |-> -35, pitch |-> 0],
      [total_accel |-> 60, roll |-> 0, pitch |-> 0],
      [total_accel |-> 250, roll |-> 0, pitch |-> 40] }

Abs(x) == IF x < 0 THEN -x ELSE x

\* math.sqrt(pos_e**2 + pos_n**2 + pos_u**2) >= thresh
DisplacementAtLeast(p, thresh) ==
    thresh <= 0 \/ p.pos_e * p.pos_e + p.pos_n * p.pos_n + p.pos_u * p.pos_u >= thresh * thresh

\* the level analyze_gnss_displacement decides (thresholds read from 'Water')
GnssLevel(p, config) ==
    LET thresh_warn == _get_cfg(config, "Water", "warning_threshold", 15)
        thresh_crit == _get_cfg(config, "Water", "critical_threshold", 30)
    IN IF DisplacementAtLeast(p, thresh_crit) THEN "CRITICAL"
       ELSE IF DisplacementAtLeast(p, thresh_warn) THEN "WARNING"
       ELSE "INFO"

RainLevel(d, config) ==
    LET warning == _get_cfg(config, "RainAlerting", "rain_intensity_warning_threshold", 25000)
        critical == _get_cfg(config, "RainAlerting", "rain_intensity_critical_threshold", 50000)
    IN IF d.intensity_mm_h >= critical THEN "CRITICAL"
       ELSE IF d.intensity_mm_h >= warning THEN "WARNING"
       ELSE "INFO"

WaterLevel(d, config) ==
    LET warn == _get_cfg(config, "water", "warning_level", 9990000)
        crit == _get_cfg(config, "water", "critical_level", 9990000)
    IN IF d.water_level >= crit THEN "CRITICAL"
       ELSE IF d.water_level >= warn THEN "WARNING"
       ELSE "INFO"

TiltLevel(d, config) ==
    LET shock_thresh == _get_cfg(config, "ImuAlerting", "shock_threshold_ms2", 200)
        max_tilt == IF Abs(d.roll) >= Abs(d.pitch) THEN Abs(d.roll) ELSE Abs(d.pitch)
    IN IF d.total_accel > shock_thresh THEN "CRITICAL"
       ELSE IF max_tilt > 30 THEN "WARNING"
       ELSE "INFO"

\* if level in ["WARNING", "CRITICAL"]: return {...}; return None
\* the message is the level's text with the measured value formatted in
AlertOf(level, category, value, details) ==
    IF level \in {"WARNING", "CRITICAL"}
    THEN [type |-> "alert", level |-> level, category |-> category,
          message |-> <<category, level, value>>, details |-> details]
    ELSE None

Latest(recent_data) == recent_data[Len(recent_data)]

\* latest_point.get('speed_2d', 0.0), in 1e-7 m/s
SpeedOf(p) == IF "speed_2d" \in DOMAIN p THEN p.speed_2d ELSE 0

\* the class table built into _classify_cruden_varnes; a threshold in 1e-7 m/s
\* is the fraction num / den
default_classes ==
    << [name |-> "Extremely Rapid", num |-> 50000000, den |-> 1],
       [name |-> "Very Rapid", num |-> 500000, den |-> 1],
       [name |-> "Rapid", num |-> 5000, den |-> 1],
       [name |-> "Moderate", num |-> 21, den |-> 10],
       [name |-> "Slow", num |-> 16, den |-> 1000],
       [name |-> "Very Slow", num |-> 5, den |-> 1000],
       [name |-> "Extremely Slow", num |-> 0, den |-> 1] >>

\* config['GNSS_Classification'] of get_default_station_config(): the
\* thresholds are mm_giay / 1000.0
GNSS_Classification ==
    << [name |-> "Extremely rapid", num |-> 50000000, den |-> 1],
       [name |-> "Very rapid", num |-> 40000000, den |-> 1],
       [name |-> "Rapid", num |-> 20000000, den |-> 1],
       [name |-> "Moderate", num |-> 10000000, den |-> 1],
       [name |-> "Slow", num |-> 51, den |-> 100],
       [name |-> "Very slow", num |-> 1, den |-> 100],
       [name |-> "Extremely slow", num |-> 0, den |-> 1] >>

\* config.get('GNSS_Classification', default_classes): only the empty config
\* lacks the table
ClassesOf(config) == IF config = EmptyConfig THEN default_classes ELSE GNSS_Classification

\* the first class, thresholds descending, with velocity_ms >= threshold
_classify_cruden_varnes(velocity_ms, config) ==
    LET classes == ClassesOf(config)
        hit == { i \in 1..Len(classes) : velocity_ms * classes[i].den >= classes[i].num }
    IN IF hit = {} THEN "Stable"
       ELSE classes[CHOOSE i \in hit : \A j \in hit : i <= j].name

analyze_gnss_displacement(recent_data, config) ==
    IF recent_data = <<>> THEN None
    ELSE LET p == Latest(recent_data)
             sq == p.pos_e * p.pos_e + p.pos_n * p.pos_n + p.pos_u * p.pos_u
         IN AlertOf(GnssLevel(p, config), "displacement", sq,
                    [displacement_m_squared |-> sq, velocity_ms |-> SpeedOf(p),
                     class |-> _classify_cruden_varnes(SpeedOf(p), config)])

analyze_rainfall(recent_data, config) ==
    IF recent_data = <<>> THEN None
    ELSE LET intensity == Latest(recent_data).intensity_mm_h
         IN AlertOf(RainLevel(Latest(recent_data), config), "rainfall", intensity,
                    [intensity |-> intensity])

analyze_water_level(recent_data, config) ==
    IF recent_data = <<>> THEN None
    ELSE LET water_level == Latest(recent_data).water_level
         IN AlertOf(WaterLevel(Latest(recent_data), config), "water_level", water_level,
                    [water_level |-> water_level])

analyze_tilt(recent_data, config) ==
    IF recent_data = <<>> THEN None
    ELSE LET d == Latest(recent_data)
             max_tilt == IF Abs(d.roll) >= Abs(d.pitch) THEN Abs(d.roll) ELSE Abs(d.pitch)
             level == TiltLevel(d, config)
         IN AlertOf(level, "imu_tilt_shock",
                    IF level = "CRITICAL" THEN d.total_accel ELSE max_tilt,
                    [accel |-> d.total_accel, tilt |-> max_tilt])

\* an analyzer that keeps the alert it raised last and repeats it
Analyze_shared(sensor_type, data, config) ==
    IF Len(an_log) > 0 /\ an_log[Len(an_log)].alert # None
    THEN an_log[Len(an_log)].alert
    ELSE CASE sensor_type = "gnss" -> analyze_gnss_displacement(<<data>>, config)
           [] sensor_type = "rain" -> analyze_rainfall(<<data>>, config)
           [] sensor_type = "water" -> analyze_water_level(<<data>>, config)
           [] sensor_type = "imu" -> analyze_tilt(<<data>>, config)

\* the analyzer method process_pipeline calls for a sensor type
Analyze(sensor_type, data, config) ==
    CASE sensor_type = "gnss" -> analyze_gnss_displacement(<<data>>, config)
      [] sensor_type = "rain" -> analyze_rainfall(<<data>>, config)
      [] sensor_type = "water" -> analyze_water_level(<<data>>, config)
      [] sensor_type = "imu" -> analyze_tilt(<<data>>, config)

\* what a call that let an exception out would give its caller
Raised == [type |-> "raised"]
\* no call with an unchecked input was made yet
NoCall == [op |-> "", input |-> <<>>, outcome |-> None]

AnalyzerConstructed ==
    /\ station_config \in StationConfigs
    /\ an_log = <<>>
    /\ an_last = NoCall

AnalyzerParked ==
    /\ station_config = DefaultConfig
    /\ an_log = <<>>
    /\ an_last = NoCall

AnalyzeStep(sensor_type, data) ==
    /\ Len(an_log) < MaxSamples
    /\ an_log' = Append(an_log, [sensor |-> sensor_type, data |-> data,
                                 alert |-> Analyze(sensor_type, data, station_config)])
    /\ UNCHANGED <<station_config, an_last>>
    /\ UNCHANGED not_analyzer

AnalyzeGnss == \E d \in GnssRecords : AnalyzeStep("gnss", d)
AnalyzeRain == \E d \in RainRecords : AnalyzeStep("rain", d)
AnalyzeWater == \E d \in WaterRecords : AnalyzeStep("water", d)
AnalyzeTilt == \E d \in ImuRecords : AnalyzeStep("imu", d)

(***************************************************************************)
(* The analyzer called with inputs nobody checked: samples without a       *)
(* 'data' key, records that lack fields or hold text where a number is     *)
(* expected.  Each analyze_* method runs its body in try/except.           *)
(***************************************************************************)
MaxHistory == 2

\* the fields of a record the analyzer reads for a sensor type
RawFieldsOf(sensor_type) ==
    CASE sensor_type = "gnss" -> {"pos_e", "pos_n", "pos_u"}
      [] sensor_type = "rain" -> {"intensity_mm_h"}
      [] sensor_type = "water" -> {"water_level"}
      [] sensor_type = "imu" -> {"total_accel", "roll", "pitch"}

\* a value that is dangerous for the sensor type, in the analyzer's units
RawDanger(sensor_type) ==
    CASE sensor_type = "gnss" -> 30
      [] sensor_type = "rain" -> 60000
      [] sensor_type = "water" -> 60000
      [] sensor_type = "imu" -> 250

\* a sample of recent_data: with or without 'data', each field absent, text
\* or a number
RawSamples(sensor_type) ==
    { [has_data |-> h, data |-> d] :
        h \in BOOLEAN,
        d \in [RawFieldsOf(sensor_type) -> {Absent, Text, Num(RawDanger(sensor_type))}] }

\* the body of the try block: recent_data[-1]['data'] raises KeyError,
\* arithmetic or comparison on text raises TypeError, latest.get(f, 0.0)
\* supplies 0 for a missing field
TryBody(sensor_type, sample, config) ==
    IF ~sample.has_data \/ \E f \in RawFieldsOf(sensor_type) : sample.data[f].kind = "text"
    THEN Raised
    ELSE Analyze(sensor_type,
                 [f \in RawFieldsOf(sensor_type) |->
                     IF sample.data[f].kind = "num" THEN sample.data[f].v ELSE 0],
                 config)

Guarded_reraised(outcome) == outcome

\* except Exception as e: logger.error(...); return None
Guarded(outcome) == IF outcome = Raised THEN None ELSE outcome

\* analyze_gnss_displacement, analyze_rainfall, analyze_water_level and
\* analyze_tilt on any recent_data
AnalyzeRaw(sensor_type, recent_data, config) ==
    IF recent_data = <<>> THEN None
    ELSE Guarded(TryBody(sensor_type, Latest(recent_data), config))

\* the analyzer keeps nothing between calls, so the calls are taken from
\* the constructed state
RawCall(sensor_type) ==
    \E recent_data \in {<<>>} \cup { <<x>> : x \in RawSamples(sensor_type) } :
        /\ an_last = NoCall
        /\ an_last' = [op |-> sensor_type, input |-> recent_data,
                       outcome |-> AnalyzeRaw(sensor_type, recent_data, station_config)]
        /\ UNCHANGED <<station_config, an_log>>
        /\ UNCHANGED not_analyzer

\* the points of historical_data: timestamp absent or a number of seconds
HistoryPoints ==
    { [timestamp |-> t, has_data |-> h, data |-> d] :
        t \in {Absent, Num(0), Num(3600), Num(2592000)}, h \in BOOLEAN,
        d \in { [f \in RawFieldsOf("gnss") |-> x] : x \in {Absent, Text} }
              \cup { [f \in RawFieldsOf("gnss") |-> IF f = "pos_e" THEN Num(10) ELSE Num(0)] } }

RECURSIVE Histories(_)
Histories(n) ==
    IF n = 0 THEN {<<>>}
    ELSE Histories(n - 1) \cup
         { Append(h, p) : h \in {g \in Histories(n - 1) : Len(g) = n - 1}, p \in HistoryPoints }

\* math.sqrt of a squared length, to the unit of the result
Isqrt(n) == CHOOSE r \in 0..n : r * r <= n /\ (r + 1) * (r + 1) > n

\* a / b >= c / d for a, c >= 0 and b, d > 0
RatGeq(a, b, c, d) ==
    IF a \div b # c \div d THEN a \div b > c \div d
    ELSE (a % b) * d >= (c % d) * b

\* sorted(historical_data, key=lambda x: x['timestamp']): a stable sort
Sorted(historical_data) ==
    LET idx == 1..Len(historical_data)
        ts(n) == historical_data[n].timestamp.v
        rank(n) == Cardinality({ m \in idx : ts(m) < ts(n) \/ (ts(m) = ts(n) /\ m < n) }) + 1
    IN [k \in idx |-> historical_data[CHOOSE n \in idx : rank(n) = k]]

\* the table built into _classify_velocity_extended, used when the config
\* holds none; mm_year / 1000 as the fraction num / den.  The table of a
\* config has neither 'mm_year' nor 'mm_s', so each of its thresholds is 0.
ExtendedClasses(config) ==
    IF config = EmptyConfig
    THEN << [name |-> "Extremely Rapid", num |-> 157680000, den |-> 1],
            [name |-> "Very Rapid", num |-> 1576800, den |-> 1],
            [name |-> "Rapid", num |-> 15768, den |-> 1],
            [name |-> "Moderate", num |-> 11826, den |-> 625],
            [name |-> "Slow", num |-> 1971, den |-> 1250],
            [name |-> "Very Slow", num |-> 1971, den |-> 62500],
            [name |-> "Extremely Slow", num |-> 0, den |-> 1] >>
    ELSE [i \in 1..Len(GNSS_Classification) |->
            [name |-> GNSS_Classification[i].name, num |-> 0, den |-> 1]]

\* the first class, thresholds descending, with velocity_mm_year >= mm_year;
\* the velocity is displacement_mm * 8760 / hours mm a year
_classify_velocity_extended(displacement_mm, hours, config) ==
    LET classes == ExtendedClasses(config)
        hit == { i \in 1..Len(classes) :
                    RatGeq(displacement_mm * 219, 25 * hours, classes[i].num, classes[i].den) }
    IN IF hit = {} THEN "Stable"
       ELSE classes[CHOOSE i \in hit : \A j \in hit : i <= j].name

\* the sign of the least-squares slope of speed_2d (1e-7 m/s) over the
\* points that hold one, against 0.0001 m/s a point; "stable" below 5 points
\* and when a point without 'data' raises
_detect_trend(sorted_data) ==
    LET idx == 1..Len(sorted_data)
        with == { n \in idx : "speed_2d" \in DOMAIN sorted_data[n].data }
        n == Cardinality(with)
        x(i) == Cardinality({ m \in with : m < i })
        RECURSIVE Sum(_, _)
        Sum(f(_), S) == IF S = {} THEN 0
                        ELSE LET i == CHOOSE i \in S : TRUE IN f(i) + Sum(f, S \ {i})
        xs(i) == x(i)
        ys(i) == sorted_data[i].data["speed_2d"].v
        xy(i) == x(i) * ys(i)
        xx(i) == x(i) * x(i)
        num == n * Sum(xy, with) - Sum(xs, with) * Sum(ys, with)
        den == n * Sum(xx, with) - Sum(xs, with) * Sum(xs, with)
    IN IF Len(sorted_data) < 5 THEN "stable"
       ELSE IF \E i \in idx : ~sorted_data[i].has_data THEN "stable"
       ELSE IF n < 5 THEN "stable"
       ELSE IF num > 1000 * den THEN "accelerating"
       ELSE IF num < -1000 * den THEN "decelerating"
       ELSE "stable"

\* the bands 1000, 100 and 16 mm a year, the first two times 0.8 when the
\* trend is accelerating
_assess_long_term_risk(displacement_mm, hours, trend) ==
    LET threshold_high == IF trend = "accelerating" THEN 800 ELSE 1000
        threshold_medium == IF trend = "accelerating" THEN 80 ELSE 100
        above(t) == ~RatGeq(t, 1, displacement_mm * 8760, hours)
    IN IF above(threshold_high) THEN "EXTREME"
       ELSE IF above(threshold_medium) THEN "HIGH"
       ELSE IF above(16) THEN "MEDIUM"
       ELSE "LOW"

\* what analyze_long_term_velocity computes inside its try block;
\* sorted() is stable, so the first point is the earliest of the smallest
\* timestamp and the last point the latest of the largest.  Positions are in
\* cm, the displacement in mm.
LongTermBody(historical_data, config) ==
    LET idx == 1..Len(historical_data)
        ts(n) == historical_data[n].timestamp.v
        first == CHOOSE n \in idx : \A m \in idx : ts(n) < ts(m) \/ (ts(n) = ts(m) /\ n <= m)
        last == CHOOSE n \in idx : \A m \in idx : ts(n) > ts(m) \/ (ts(n) = ts(m) /\ n >= m)
        ends == {historical_data[first], historical_data[last]}
        get(n, f) == IF historical_data[n].data[f].kind = "num"
                     THEN historical_data[n].data[f].v ELSE 0
        delta(f) == get(last, f) - get(first, f)
        sq == delta("pos_e") * delta("pos_e") + delta("pos_n") * delta("pos_n")
              + delta("pos_u") * delta("pos_u")
        displacement_mm == Isqrt(sq * 100)
        hours == (ts(last) - ts(first)) \div 3600
        trend == _detect_trend(Sorted(historical_data))
    IN IF Len(historical_data) < 2 THEN [type |-> "insufficient_data"]
       ELSE IF \E n \in idx : historical_data[n].timestamp.kind # "num" THEN Raised
       ELSE IF (ts(last) - ts(first)) * 10 < 86400 THEN [type |-> "insufficient_data"]
       ELSE IF \E p \in ends : ~p.has_data \/ \E f \in RawFieldsOf("gnss") : p.data[f].kind = "text"
            THEN Raised
       ELSE [type |-> "success",
             total_displacement_mm |-> displacement_mm,
             duration_hours |-> hours,
             classification |-> _classify_velocity_extended(displacement_mm, hours, config),
             trend |-> trend,
             risk_level |-> _assess_long_term_risk(displacement_mm, hours, trend)]

\* except Exception as e: return {"status": "error", ...}
analyze_long_term_velocity(historical_data, config) ==
    IF LongTermBody(historical_data, config) = Raised THEN [type |-> "error"]
    ELSE LongTermBody(historical_data, config)

LongTermCall ==
    \E historical_data \in Histories(MaxHistory) :
        /\ an_last = NoCall
        /\ an_last' = [op |-> "long_term", input |-> historical_data,
                       outcome |-> analyze_long_term_velocity(historical_data, station_config)]
        /\ UNCHANGED <<station_config, an_log>>
        /\ UNCHANGED not_analyzer

(***************************************************************************)
(* MQTTBridge.process_pipeline for the sensors of one station.  on_message *)
(* hands every frame to the event loop as a coroutine of its own, so       *)
(* several run at once; a coroutine runs without interruption between two  *)
(* awaits.  Steps 1 to 4 (processor, analyzer, write decision) contain no  *)
(* await; step 5 awaits the config store and then the data store.          *)
(***************************************************************************)
MaxTasks == 2
MaxPipelineFrames == 2
PipelineEpoch == 1700000000     \* int(time.time()) when the bridge starts

SAVE_INTERVAL_DEFAULT == 60
SAVE_INTERVAL_GNSS == 86400
SAVE_INTERVAL_RAIN == 3600
SAVE_INTERVAL_WATER == 3600
SAVE_INTERVAL_IMU == 2592000

TaskIds == 1..MaxTasks

SensorTypes == {"gnss", "rain", "water", "imu"}

\* the processed records the frames of a sensor type yield here: a safe and
\* a dangerous one for gnss and rain, a safe one for water and imu
ProcessedRecords(sensor_type) ==
    CASE sensor_type = "gnss" -> { [pos_e |-> e, pos_n |-> 0, pos_u |-> 0] : e \in {0, 30} }
      [] sensor_type = "rain" -> { [intensity_mm_h |-> i] : i \in {5000, 25000} }
      [] sensor_type = "water" -> { [water_level |-> 10000] }
      [] sensor_type = "imu" -> { [total_accel |-> 98, roll |-> 0, pitch |-> 0] }

\* the instants at which frames arrive
ClockTimes ==
    { PipelineEpoch,
      PipelineEpoch + SAVE_INTERVAL_RAIN,
      PipelineEpoch + SAVE_INTERVAL_GNSS }

\* interval = settings.SAVE_INTERVAL_DEFAULT, replaced for the four known types
SaveInterval(sensor_type) ==
    IF sensor_type = "gnss" THEN SAVE_INTERVAL_GNSS
    ELSE IF sensor_type = "imu" THEN SAVE_INTERVAL_IMU
    ELSE IF sensor_type = "rain" THEN SAVE_INTERVAL_RAIN
    ELSE IF sensor_type = "water" THEN SAVE_INTERVAL_WATER
    ELSE SAVE_INTERVAL_DEFAULT

IdleTask ==
    [pc |-> "idle", frame |-> 0, sensor_type |-> "gnss", ts |-> 0, alert |-> None,
     save_data_now |-> FALSE, is_dangerous |-> FALSE, last_saved |-> 0, added |-> FALSE,
     commit_failed |-> FALSE]

PipelineConstructed ==
    /\ pl_now = PipelineEpoch
    /\ last_save_time = [s \in SensorTypes |-> 0]     \* {} read with .get(key, 0)
    /\ tasks = [t \in TaskIds |-> IdleTask]
    \* Station.last_update, Station.status and Device.last_data_time (default 0)
    /\ station_status = [last_update |-> 0, status |-> "offline", last_data_time |-> 0]
    /\ sensor_rows = <<>>
    /\ alert_rows = <<>>
    /\ pl_frames = 0
    /\ mq_queue = <<>>
    /\ process_log = <<>>

\* if alert and alert.get('level') in ['WARNING', 'CRITICAL']
IsDangerous(alert) == alert # None /\ alert.level \in {"WARNING", "CRITICAL"}

\* save_data_now as step 4 decides it
SaveDecision(sensor_type, alert, current_timestamp) ==
    \/ IsDangerous(alert)
    \/ current_timestamp - last_save_time[sensor_type] >= SaveInterval(sensor_type)

\* the broker thread's on_message: run_coroutine_threadsafe puts the frame's
\* coroutine at the end of the event loop's queue.  The frame's processor
\* will return a record or nothing.
OnMessage ==
    \E sensor_type \in SensorTypes : \E data \in ProcessedRecords(sensor_type) \cup {None} :
        /\ pl_frames < MaxPipelineFrames
        /\ pl_frames' = pl_frames + 1
        /\ mq_queue' = Append(mq_queue, [frame |-> pl_frames + 1, sensor_type |-> sensor_type,
                                         data |-> data])
        /\ UNCHANGED <<pl_now, last_save_time, tasks, station_status, sensor_rows, alert_rows,
                       process_log>>
        /\ UNCHANGED not_pipeline

ScheduledNext_newest(queue) == Len(queue)

\* the event loop starts the scheduled coroutines in the order they were
\* scheduled
ScheduledNext(queue) == 1

\* the scheduled coroutines left once the one at position n has started
Unscheduled(queue, n) == SubSeq(queue, 1, n - 1) \o SubSeq(queue, n + 1, Len(queue))

\* steps 1 to 4 for the next scheduled frame, whose processor returns a record
PipelineStart(t, f) ==
    LET alert == Analyze(f.sensor_type, f.data, station_config) IN
    /\ tasks[t].pc \in {"idle", "done"}
    /\ tasks' = [tasks EXCEPT ![t] =
                    [pc |-> "heartbeat", frame |-> f.frame,
                     sensor_type |-> f.sensor_type, ts |-> pl_now, alert |-> alert,
                     save_data_now |-> SaveDecision(f.sensor_type, alert, pl_now),
                     is_dangerous |-> IsDangerous(alert),
                     last_saved |-> last_save_time[f.sensor_type],
                     added |-> FALSE, commit_failed |-> FALSE]]
    /\ mq_queue' = Unscheduled(mq_queue, ScheduledNext(mq_queue))
    /\ process_log' = Append(process_log, [frame |-> f.frame, sensor_type |-> f.sensor_type])
    /\ UNCHANGED <<pl_now, last_save_time, station_status, sensor_rows, alert_rows, pl_frames>>
    /\ UNCHANGED not_pipeline

\* the coroutine on_message creates for a frame takes the first free slot
FreeTasks == { t \in TaskIds : tasks[t].pc \in {"idle", "done"} }

PipelineFrame ==
    /\ mq_queue # <<>>
    /\ mq_queue[ScheduledNext(mq_queue)].data # None
    /\ \E t \in FreeTasks :
          /\ \A u \in FreeTasks : t <= u
          /\ PipelineStart(t, mq_queue[ScheduledNext(mq_queue)])

\* undecodable JSON, processor error or no processed record: the coroutine
\* returns before step 3
PipelineIgnored ==
    /\ mq_queue # <<>>
    /\ mq_queue[ScheduledNext(mq_queue)].data = None
    /\ mq_queue' = Unscheduled(mq_queue, ScheduledNext(mq_queue))
    /\ process_log' = Append(process_log,
                             [frame |-> mq_queue[ScheduledNext(mq_queue)].frame,
                              sensor_type |-> mq_queue[ScheduledNext(mq_queue)].sensor_type])
    /\ UNCHANGED <<pl_now, last_save_time, tasks, station_status, sensor_rows, alert_rows,
                   pl_frames>>
    /\ UNCHANGED not_pipeline

\* step 5A succeeded; 5B up to its commit runs without an await in between:
\* the rows are added to the session and last_save_time is set
HeartbeatDone(t) ==
    LET k == tasks[t] IN
    /\ k.pc = "heartbeat"
    \* UPDATE stations SET last_update = ..., status = 'online'; no statement
    \* touches the devices table
    /\ station_status' = [station_status EXCEPT !.last_update = k.ts, !.status = "online"]
    /\ IF k.save_data_now \/ k.is_dangerous
       THEN /\ tasks' = [tasks EXCEPT ![t].pc = "commit", ![t].added = k.save_data_now]
            /\ last_save_time' = IF k.save_data_now
                                 THEN [last_save_time EXCEPT ![k.sensor_type] = k.ts]
                                 ELSE last_save_time
       ELSE /\ tasks' = [tasks EXCEPT ![t].pc = "done"]
            /\ UNCHANGED last_save_time
    /\ UNCHANGED <<pl_now, sensor_rows, alert_rows, pl_frames, mq_queue, process_log>>
    /\ UNCHANGED not_pipeline

\* the config session, the update or its commit raised: the except clause
\* of step 5 logs the error and the coroutine ends
HeartbeatFailed(t) ==
    /\ tasks[t].pc = "heartbeat"
    /\ tasks' = [tasks EXCEPT ![t].pc = "done"]
    /\ UNCHANGED <<pl_now, last_save_time, station_status, sensor_rows, alert_rows, pl_frames,
                   mq_queue, process_log>>
    /\ UNCHANGED not_pipeline

\* await db_data.commit() succeeded
DataCommitDone(t) ==
    LET k == tasks[t] IN
    /\ k.pc = "commit"
    /\ sensor_rows' = IF k.save_data_now
                      THEN Append(sensor_rows, [frame |-> k.frame, sensor_type |-> k.sensor_type,
                                                timestamp |-> k.ts, periodic |-> ~k.is_dangerous])
                      ELSE sensor_rows
    /\ alert_rows' = IF k.is_dangerous
                     THEN Append(alert_rows, [frame |-> k.frame, timestamp |-> k.ts,
                                              level |-> k.alert.level,
                                              category |-> k.alert.category,
                                              message |-> k.alert.message,
                                              is_resolved |-> FALSE])
                     ELSE alert_rows
    /\ tasks' = [tasks EXCEPT ![t].pc = "done"]
    /\ UNCHANGED <<pl_now, last_save_time, station_status, pl_frames, mq_queue, process_log>>
    /\ UNCHANGED not_pipeline

\* await db_data.commit() raised: nothing is stored, last_save_time stays as set
DataCommitFailed(t) ==
    /\ tasks[t].pc = "commit"
    /\ tasks' = [tasks EXCEPT ![t].pc = "done", ![t].commit_failed = TRUE]
    /\ UNCHANGED <<pl_now, last_save_time, station_status, sensor_rows, alert_rows, pl_frames,
                   mq_queue, process_log>>
    /\ UNCHANGED not_pipeline

\* time passes
ClockAdvance ==
    /\ \E x \in ClockTimes : x > pl_now /\ pl_now' = x
    /\ UNCHANGED <<last_save_time, tasks, station_status, sensor_rows, alert_rows, pl_frames,
                   mq_queue, process_log>>
    /\ UNCHANGED not_pipeline

(***************************************************************************)
(* ConnectionManager (app/websocket.py), the broadcast hub.  Time is in    *)
(* ticks of 0.5 s.  Every coroutine runs without interruption between two  *)
(* awaits; _send_to_all awaits once per connection it sends to.            *)
(***************************************************************************)
MaxObservers == 2
MaxBroadcasts == 2
MaxHubTicks == 2
HubEpoch == 1000              \* time.time() when the hub is created, in ticks

FlushSleepTicks == 1          \* asyncio.sleep(0.5)
StatusThrottleTicks == 4      \* throttle_intervals['station_status'] = 2.0

ObserverIds == 1..MaxObservers

\* dispatch 0 is the _send_to_all of the flush task, the others those of
\* callers of broadcast, each of which may still be in flight
FlushDispatch == 0
DispatchIds == 0..MaxBroadcasts

HubSensorTypes == {"gnss"}

\* the events callers hand to broadcast; id tells two calls apart
HubMessage(type, key, level, id) ==
    [type |-> type, key |-> key, level |-> level, id |-> id, data |-> <<>>,
     risk_level |-> IF type = "station_status" THEN "LOW" ELSE ""]

\* a station_status carries no 'level'; its risk_level is LOW or the level
\* of the alert the frame raised
HubMessages(id) ==
    {HubMessage("alert", "", "CRITICAL", id), HubMessage("station_status", "status_1", "", id),
     [HubMessage("station_status", "status_1", "", id) EXCEPT !.risk_level = "CRITICAL"]}
    \cup {HubMessage("sensor_data", s, l, id) : s \in HubSensorTypes, l \in {"", "WARNING"}}

\* batch_payload = {'type': 'batch_update', 'data': messages}
BatchPayload(messages) ==
    [type |-> "batch_update", key |-> "", level |-> "", id |-> 0, data |-> messages,
     risk_level |-> ""]

NoMessage == HubMessage("", "", "", 0)

IdleDispatch ==
    [pc |-> "idle", msg |-> NoMessage, i |-> 0, disconnected |-> <<>>,
     snapshot |-> {}, attempted |-> {}]

HubConstructed ==
    /\ active_connections = <<>>
    /\ observers = [o \in ObserverIds |-> "none"]
    /\ last_broadcast_time = 0                \* defaultdict(float)
    /\ message_buffer = <<>>
    /\ buffer_task = [pc |-> "none", wake |-> 0]
    /\ dispatches = [d \in DispatchIds |-> IdleDispatch]
    /\ delivered = [o \in ObserverIds |-> <<>>]
    /\ hub_now = HubEpoch
    /\ hub_calls = <<>>

RECURSIVE RemoveFirst(_, _)
\* list.remove(x) when x is in the list
RemoveFirst(list, x) ==
    IF list = <<>> THEN <<>>
    ELSE IF Head(list) = x THEN Tail(list)
    ELSE <<Head(list)>> \o RemoveFirst(Tail(list), x)

RECURSIVE RemoveEach(_, _)
\* for conn in disconnected: self.disconnect(conn)
RemoveEach(list, disconnected) ==
    IF disconnected = <<>> THEN list
    ELSE RemoveEach(RemoveFirst(list, Head(disconnected)), Tail(disconnected))

\* what broadcast does with a message
BroadcastRoute_unbuffered(message) ==
    IF message.type = "alert" \/ message.level \in {"WARNING", "CRITICAL"} THEN "immediate"
    ELSE IF message.type = "station_status" THEN "status"
    ELSE IF message.type = "sensor_data" THEN "immediate"
    ELSE "ignore"

BroadcastRoute(message) ==
    IF message.type = "alert" \/ message.level \in {"WARNING", "CRITICAL"} THEN "immediate"
    ELSE IF message.type = "station_status" THEN "status"
    ELSE IF message.type = "sensor_data" THEN "buffer"
    ELSE "ignore"

BufferPut_append(buffer, message) == Append(buffer, message)

\* self.message_buffer[key] = message: a dict keeps the position of a key
\* it already holds
BufferPut(buffer, message) ==
    IF \E n \in 1..Len(buffer) : buffer[n].key = message.key
    THEN [n \in 1..Len(buffer) |-> IF buffer[n].key = message.key THEN message ELSE buffer[n]]
    ELSE Append(buffer, message)

\* the flush loop goes back to asyncio.sleep(0.5)
FlushSleeping == [pc |-> "sleeping", wake |-> hub_now + FlushSleepTicks]

\* _send_to_all of dispatch d, in the state rec, runs up to its next await:
\* it sends to the connection at the iterator's index of the live list, or,
\* past the end of the list, removes the connections whose send failed and
\* returns (the flush task then sleeps again).
SendToAllStep(d, rec) ==
    IF rec.i < Len(active_connections)
    THEN LET conn == active_connections[rec.i + 1]
             sent == observers[conn] = "open"
         IN /\ dispatches' = [dispatches EXCEPT ![d] =
                   [rec EXCEPT !.pc = "sending", !.i = rec.i + 1,
                               !.attempted = rec.attempted \cup {conn},
                               !.disconnected = IF sent THEN rec.disconnected
                                                ELSE Append(rec.disconnected, conn)]]
            /\ delivered' = IF sent
                            THEN [delivered EXCEPT ![conn] =
                                     Append(@, [time |-> hub_now, msg |-> rec.msg])]
                            ELSE delivered
            /\ buffer_task' = IF d = FlushDispatch
                              THEN [pc |-> "sending", wake |-> 0] ELSE buffer_task
            /\ UNCHANGED active_connections
    ELSE /\ dispatches' = [dispatches EXCEPT ![d] = [rec EXCEPT !.pc = "returned"]]
         /\ active_connections' = RemoveEach(active_connections, rec.disconnected)
         /\ buffer_task' = IF d = FlushDispatch THEN FlushSleeping ELSE buffer_task
         /\ UNCHANGED delivered

\* a call of _send_to_all(message) begins
NewDispatch(message) ==
    [pc |-> "sending", msg |-> message, i |-> 0, disconnected |-> <<>>,
     snapshot |-> {active_connections[n] : n \in 1..Len(active_connections)},
     attempted |-> {}]

FreeDispatches == { d \in DispatchIds \ {FlushDispatch} : dispatches[d].pc \in {"idle", "returned"} }

\* connect(websocket): accept, append, start the flush task if there is none
Connect(o) ==
    /\ observers[o] = "none"
    /\ \A p \in ObserverIds : observers[p] = "none" => o <= p    \* ids in order of arrival
    /\ observers' = [observers EXCEPT ![o] = "open"]
    /\ active_connections' = Append(active_connections, o)
    /\ buffer_task' = IF buffer_task.pc = "none" THEN FlushSleeping ELSE buffer_task
    /\ UNCHANGED <<last_broadcast_time, message_buffer, dispatches, delivered, hub_now, hub_calls>>
    /\ UNCHANGED not_hub

\* the peer goes away: from now on send_json raises
PeerGone(o) ==
    /\ observers[o] = "open"
    /\ observers' = [observers EXCEPT ![o] = "broken"]
    /\ UNCHANGED <<active_connections, last_broadcast_time, message_buffer, buffer_task,
                   dispatches, delivered, hub_now, hub_calls>>
    /\ UNCHANGED not_hub

\* websocket_endpoint catches WebSocketDisconnect and calls disconnect(websocket)
Disconnect(o) ==
    /\ observers[o] = "broken"
    /\ observers' = [observers EXCEPT ![o] = "closed"]
    /\ active_connections' = RemoveFirst(active_connections, o)
    /\ UNCHANGED <<last_broadcast_time, message_buffer, buffer_task, dispatches, delivered,
                   hub_now, hub_calls>>
    /\ UNCHANGED not_hub

\* broadcast(message), up to its first await or its return
Broadcast(message) ==
    LET route == BroadcastRoute(message)
        passes == ~(hub_now - last_broadcast_time < StatusThrottleTicks)
    IN
    /\ Len(hub_calls) < MaxBroadcasts
    /\ hub_calls' = Append(hub_calls, message)
    /\ UNCHANGED <<observers, hub_now>>
    /\ UNCHANGED not_hub
    /\ IF route = "immediate" \/ (route = "status" /\ passes)
       THEN /\ \E d \in FreeDispatches :
                  /\ \A e \in FreeDispatches : d <= e
                  /\ SendToAllStep(d, NewDispatch(message))
            /\ last_broadcast_time' = IF route = "status" THEN hub_now ELSE last_broadcast_time
            /\ UNCHANGED message_buffer
       ELSE /\ message_buffer' = IF route = "buffer" THEN BufferPut(message_buffer, message)
                                 ELSE message_buffer
            /\ UNCHANGED <<active_connections, last_broadcast_time, buffer_task, dispatches,
                           delivered>>

BroadcastCall == \E message \in HubMessages(Len(hub_calls) + 1) : Broadcast(message)

\* a send_json of dispatch d has returned or raised
SendNext(d) ==
    /\ dispatches[d].pc = "sending"
    /\ SendToAllStep(d, dispatches[d])
    /\ UNCHANGED <<observers, last_broadcast_time, message_buffer, hub_now, hub_calls>>
    /\ UNCHANGED not_hub

\* _flush_buffer_periodically wakes from asyncio.sleep(0.5)
FlushWake ==
    /\ buffer_task.pc = "sleeping"
    /\ hub_now >= buffer_task.wake
    /\ IF message_buffer = <<>>
       THEN /\ buffer_task' = FlushSleeping
            /\ UNCHANGED <<active_connections, message_buffer, dispatches, delivered>>
       ELSE /\ message_buffer' = <<>>
            /\ SendToAllStep(FlushDispatch, NewDispatch(BatchPayload(message_buffer)))
    /\ UNCHANGED <<observers, last_broadcast_time, hub_now, hub_calls>>
    /\ UNCHANGED not_hub

HubTick ==
    /\ hub_now < HubEpoch + MaxHubTicks
    /\ hub_now' = hub_now + 1
    /\ UNCHANGED <<active_connections, observers, last_broadcast_time, message_buffer,
                   buffer_task, dispatches, delivered, hub_calls>>
    /\ UNCHANGED not_hub

(***************************************************************************)
(* MQTTBridge.reload_topics_from_db and on_connect.  The reconciliation    *)
(* pass runs in the event loop; on_connect runs in the MQTT client's       *)
(* network thread, one subscribe call after the other.                     *)
(***************************************************************************)
MaxPasses == 3

\* the topics the station can declare in config['mqtt_topics']: one for its
\* GNSS sensor, and for its rain sensor one that an operator can change
Topics == {"st1/gnss", "st1/rain", "st1/rain_b"}

\* a station declares at most one topic per sensor
StationTopics == { T \in SUBSET Topics : ~({"st1/rain", "st1/rain_b"} \subseteq T) }

\* proc_key = f"{s.id}_{sensor_type}"
ProcKeys == {"1_gnss", "1_rain"}

KeyOf(topic) == IF topic = "st1/gnss" THEN "1_gnss" ELSE "1_rain"

ReloadConstructed ==
    /\ topic_map = {}
    /\ db_topics \in StationTopics
    /\ reload_task = [pc |-> "query", new_map |-> {}]
    /\ broker_subs = {}
    /\ mqtt_connected = FALSE
    /\ on_connect_pending = {}
    /\ reload_passes = 0
    /\ processors_cache = [k \in ProcKeys |-> 0]      \* {}: 0 stands for no entry
    /\ topic_procs = [t \in Topics |-> 0]

\* the bridge with no station declared
ReloadParked == ReloadConstructed /\ db_topics = {}

\* an operator adds, changes or removes a station's topics
StationsEdited ==
    /\ \E topics \in StationTopics : topics # db_topics /\ db_topics' = topics
    /\ UNCHANGED <<topic_map, reload_task, broker_subs, mqtt_connected, on_connect_pending,
                   reload_passes, processors_cache, topic_procs>>
    /\ UNCHANGED not_reload

\* client.subscribe / client.unsubscribe reach the broker only while connected
BrokerAfter(subs, subscribed, unsubscribed) ==
    IF mqtt_connected THEN (subs \cup subscribed) \ unsubscribed ELSE subs

\* GNSSVelocityProcessor() is called without device_id and db_session_factory,
\* which its constructor requires: TypeError
ConstructorRaises(key) == key = "1_gnss"

Registered_fresh(cache, key) == reload_passes + 1

\* register: the cached processor of the key, or a new instance (named by
\* the pass that constructs it) when the cache holds none
Registered(cache, key) == IF cache[key] = 0 THEN reload_passes + 1 ELSE cache[key]

\* the pass reads the stations and builds new_map, registering each sensor;
\* a constructor that raises ends the pass in its except clause, the GNSS
\* sensor being registered before the station's other ones
ReloadQuery ==
    LET need == { KeyOf(t) : t \in db_topics }
        raised == \E k \in need : processors_cache[k] = 0 /\ ConstructorRaises(k)
    IN
    /\ reload_task.pc = "query"
    /\ reload_passes < MaxPasses
    /\ IF raised
       THEN UNCHANGED <<reload_task, processors_cache>>
       ELSE /\ reload_task' = [pc |-> "apply", new_map |-> db_topics]
            /\ processors_cache' = [k \in ProcKeys |->
                    IF k \in need THEN Registered(processors_cache, k) ELSE processors_cache[k]]
    /\ UNCHANGED <<topic_map, db_topics, broker_subs, mqtt_connected, on_connect_pending,
                   reload_passes, topic_procs>>
    /\ UNCHANGED not_reload

\* the pass subscribes new - current and unsubscribes current - new; the
\* callbacks of the network thread can run before it rebinds self.topic_map
ReloadApply ==
    /\ reload_task.pc = "apply"
    /\ broker_subs' = BrokerAfter(broker_subs, reload_task.new_map \ topic_map,
                                  topic_map \ reload_task.new_map)
    /\ reload_task' = [reload_task EXCEPT !.pc = "assign"]
    /\ UNCHANGED <<topic_map, db_topics, mqtt_connected, on_connect_pending, reload_passes,
                   processors_cache, topic_procs>>
    /\ UNCHANGED not_reload

\* self.topic_map = new_map, each topic bound to the processor register gave
\* it; the pass has completed and sleeps
ReloadAssign ==
    /\ reload_task.pc = "assign"
    /\ topic_map' = reload_task.new_map
    /\ topic_procs' = [t \in Topics |->
            IF t \in reload_task.new_map THEN processors_cache[KeyOf(t)] ELSE 0]
    /\ reload_task' = [pc |-> "query", new_map |-> {}]
    /\ reload_passes' = reload_passes + 1
    /\ UNCHANGED <<db_topics, broker_subs, mqtt_connected, on_connect_pending, processors_cache>>
    /\ UNCHANGED not_reload

\* the query or the building of the map raised: the except clause logs it,
\* nothing is subscribed and the map stays
ReloadFailed ==
    /\ reload_task.pc \in {"query", "apply"}
    /\ reload_passes < MaxPasses
    /\ reload_task' = [pc |-> "query", new_map |-> {}]
    /\ UNCHANGED <<topic_map, db_topics, broker_subs, mqtt_connected, on_connect_pending,
                   reload_passes, processors_cache, topic_procs>>
    /\ UNCHANGED not_reload

\* the broker accepted the (clean) session: on_connect starts iterating the
\* keys of the map it finds
MqttConnect ==
    /\ ~mqtt_connected
    /\ on_connect_pending = {}
    /\ mqtt_connected' = TRUE
    /\ broker_subs' = {}
    /\ on_connect_pending' = topic_map
    /\ UNCHANGED <<topic_map, db_topics, reload_task, reload_passes, processors_cache, topic_procs>>
    /\ UNCHANGED not_reload

\* on_connect: client.subscribe(topic) for the next key
OnConnectSubscribe ==
    /\ \E topic \in on_connect_pending :
          /\ on_connect_pending' = on_connect_pending \ {topic}
          /\ broker_subs' = BrokerAfter(broker_subs, {topic}, {})
    /\ UNCHANGED <<topic_map, db_topics, reload_task, mqtt_connected, reload_passes,
                   processors_cache, topic_procs>>
    /\ UNCHANGED not_reload

\* the connection to the broker is lost; the broker drops the session
MqttDisconnect ==
    /\ mqtt_connected
    /\ on_connect_pending = {}
    /\ mqtt_connected' = FALSE
    /\ broker_subs' = {}
    /\ UNCHANGED <<topic_map, db_topics, reload_task, on_connect_pending, reload_passes,
                   processors_cache, topic_procs>>
    /\ UNCHANGED not_reload

(***************************************************************************)
(* Shutdown.  MQTTBridge.run keeps the event loop running in the main      *)
(* thread until KeyboardInterrupt reaches it; the hub's flush task lives   *)
(* in the process that serves the observers and ends when that process     *)
(* cancels its tasks.  Neither loop tests a shutdown flag.                 *)
(***************************************************************************)
MaxInflight == 2

ProcessesStarted ==
    /\ bridge_proc = [pc |-> "run_forever", signalled |-> FALSE, loop_running |-> TRUE,
                      net_thread |-> "running", reload_loop |-> "sleeping", inflight |-> 0]
    /\ web_proc = [pc |-> "serving", flush_loop |-> "none"]

ExceptionCatches_all(exc) == TRUE

\* except Exception: KeyboardInterrupt and asyncio.CancelledError derive from
\* BaseException and pass through it
ExceptionCatches(exc) == exc \notin {"KeyboardInterrupt", "CancelledError"}

\* reload_topics_from_db: a pass begins after the sleep
ReloadLoopWake ==
    /\ bridge_proc.loop_running
    /\ bridge_proc.reload_loop = "sleeping"
    /\ bridge_proc' = [bridge_proc EXCEPT !.reload_loop = "working"]
    /\ UNCHANGED web_proc
    /\ UNCHANGED not_shutdown

\* the pass ends, completed or logged as failed, and the loop sleeps
ReloadLoopSleep ==
    /\ bridge_proc.loop_running
    /\ bridge_proc.reload_loop = "working"
    /\ bridge_proc' = [bridge_proc EXCEPT !.reload_loop = "sleeping"]
    /\ UNCHANGED web_proc
    /\ UNCHANGED not_shutdown

\* on_message in the network thread hands a process_pipeline coroutine to the loop
FrameScheduled ==
    /\ bridge_proc.net_thread = "running"
    /\ bridge_proc.inflight < MaxInflight
    /\ bridge_proc' = [bridge_proc EXCEPT !.inflight = @ + 1]
    /\ UNCHANGED web_proc
    /\ UNCHANGED not_shutdown

\* a process_pipeline coroutine runs to its end
PipelineFinished ==
    /\ bridge_proc.loop_running
    /\ bridge_proc.inflight > 0
    /\ bridge_proc' = [bridge_proc EXCEPT !.inflight = @ - 1]
    /\ UNCHANGED web_proc
    /\ UNCHANGED not_shutdown

\* Ctrl+C: KeyboardInterrupt is raised in the main thread, inside run_forever;
\* in_pass tells whether it hits the try block of the reconciliation pass
KeyboardInterruptRaised(in_pass) ==
    /\ bridge_proc.pc = "run_forever"
    /\ in_pass => bridge_proc.reload_loop = "working"
    /\ IF in_pass /\ ExceptionCatches("KeyboardInterrupt")
       THEN bridge_proc' = [bridge_proc EXCEPT !.signalled = TRUE, !.reload_loop = "sleeping"]
       ELSE bridge_proc' = [bridge_proc EXCEPT !.signalled = TRUE, !.pc = "interrupted",
                                               !.loop_running = FALSE,
                                               !.reload_loop = IF in_pass THEN "ended" ELSE @]
    /\ UNCHANGED web_proc
    /\ UNCHANGED not_shutdown

\* except KeyboardInterrupt: self.client.loop_stop()
RunLoopStop ==
    /\ bridge_proc.pc = "interrupted"
    /\ bridge_proc' = [bridge_proc EXCEPT !.pc = "client_stopped", !.net_thread = "stopped"]
    /\ UNCHANGED web_proc
    /\ UNCHANGED not_shutdown

\* self.client.disconnect()
RunDisconnect ==
    /\ bridge_proc.pc = "client_stopped"
    /\ bridge_proc' = [bridge_proc EXCEPT !.pc = "disconnected"]
    /\ UNCHANGED web_proc
    /\ UNCHANGED not_shutdown

\* self.loop.stop(); finally: "Bridge stopped"; run returns
RunReturn ==
    /\ bridge_proc.pc = "disconnected"
    /\ bridge_proc' = [bridge_proc EXCEPT !.pc = "stopped"]
    /\ UNCHANGED web_proc
    /\ UNCHANGED not_shutdown

\* connect: the first observer starts the flush task
FlushTaskCreated ==
    /\ web_proc.pc = "serving"
    /\ web_proc.flush_loop = "none"
    /\ web_proc' = [web_proc EXCEPT !.flush_loop = "sleeping"]
    /\ UNCHANGED bridge_proc
    /\ UNCHANGED not_shutdown

\* _flush_buffer_periodically: from the sleep to the sending of a batch and back
FlushLoopStep ==
    /\ web_proc.pc = "serving"
    /\ web_proc.flush_loop \in {"sleeping", "sending"}
    /\ web_proc' = [web_proc EXCEPT
                      !.flush_loop = IF @ = "sleeping" THEN "sending" ELSE "sleeping"]
    /\ UNCHANGED bridge_proc
    /\ UNCHANGED not_shutdown

\* the serving process is told to stop and cancels the tasks of its loop
WebShutdown ==
    /\ web_proc.pc = "serving"
    /\ web_proc' = [web_proc EXCEPT !.pc = "cancelling"]
    /\ UNCHANGED bridge_proc
    /\ UNCHANGED not_shutdown

\* CancelledError is raised at the await the flush task is suspended at
FlushCancelled ==
    /\ web_proc.pc = "cancelling"
    /\ web_proc.flush_loop \in {"sleeping", "sending"}
    /\ web_proc' = [web_proc EXCEPT
                      !.flush_loop = IF ExceptionCatches("CancelledError") THEN "sleeping"
                                     ELSE "cancelled"]
    /\ UNCHANGED bridge_proc
    /\ UNCHANGED not_shutdown

\* no task is left: the serving process ends
WebExit ==
    /\ web_proc.pc = "cancelling"
    /\ web_proc.flush_loop \in {"none", "cancelled"}
    /\ web_proc' = [web_proc EXCEPT !.pc = "stopped"]
    /\ UNCHANGED bridge_proc
    /\ UNCHANGED not_shutdown

(***************************************************************************)
(* Specifications                                                          *)
(***************************************************************************)
\* the GNSS processor as the other specifications leave it
GnssParked == GnssConstructed /\ load_task = "not_scheduled" /\ db_origin = NoRow

GnssNext ==
    \/ ProcessFrame
    \/ LoadOriginQuery
    \/ LoadOriginFound
    \/ LoadOriginUnusable
    \/ LoadOriginFailed
    \/ SaveOriginDone
    \/ SaveOriginFailed

GnssInit ==
    GnssConstructed /\ WaterConstructed /\ RainConstructed /\ ImuConstructed /\ ProcessesStarted /\ AnalyzerParked /\ PipelineConstructed
    /\ HubConstructed /\ ReloadParked

SpecGnss == GnssInit /\ [][GnssNext]_vars

\* a task created with loop.create_task runs: the save that was scheduled
\* at the lock ends, committed or failed
GnssFairness == WF_vars(SaveOriginDone \/ SaveOriginFailed)

SpecGnssLive == GnssInit /\ [][GnssNext]_vars /\ GnssFairness

WaterInit ==
    GnssParked /\ WaterConstructed /\ RainConstructed /\ ImuConstructed /\ ProcessesStarted /\ AnalyzerParked /\ PipelineConstructed
    /\ HubConstructed /\ ReloadParked

WaterNext == WaterCall

SpecWater == WaterInit /\ [][WaterNext]_vars

RainInit ==
    GnssParked /\ WaterConstructed /\ RainConstructed /\ ImuConstructed /\ ProcessesStarted /\ AnalyzerParked /\ PipelineConstructed
    /\ HubConstructed /\ ReloadParked

RainNext == RainCall

SpecRain == RainInit /\ [][RainNext]_vars

ImuInit ==
    GnssParked /\ WaterConstructed /\ RainConstructed /\ ImuConstructed /\ ProcessesStarted
    /\ AnalyzerParked /\ PipelineConstructed /\ HubConstructed /\ ReloadParked

ImuNext == ImuCall

SpecImu == ImuInit /\ [][ImuNext]_vars

AnalyzerInit ==
    GnssParked /\ WaterConstructed /\ RainConstructed /\ ImuConstructed /\ ProcessesStarted /\ AnalyzerConstructed /\ PipelineConstructed
    /\ HubConstructed /\ ReloadParked

AnalyzerNext ==
    \/ AnalyzeGnss
    \/ AnalyzeRain
    \/ AnalyzeWater
    \/ AnalyzeTilt

SpecAnalyzer == AnalyzerInit /\ [][AnalyzerNext]_vars

AnalyzerCallsNext ==
    \/ \E sensor_type \in SensorTypes : RawCall(sensor_type)
    \/ LongTermCall

SpecAnalyzerCalls == AnalyzerInit /\ [][AnalyzerCallsNext]_vars

PipelineInit ==
    GnssParked /\ WaterConstructed /\ RainConstructed /\ ImuConstructed /\ ProcessesStarted /\ AnalyzerParked /\ PipelineConstructed
    /\ HubConstructed /\ ReloadParked

PipelineNext ==
    \/ OnMessage
    \/ PipelineFrame
    \/ PipelineIgnored
    \/ \E t \in TaskIds : HeartbeatDone(t)
    \/ \E t \in TaskIds : HeartbeatFailed(t)
    \/ \E t \in TaskIds : DataCommitDone(t)
    \/ \E t \in TaskIds : DataCommitFailed(t)
    \/ ClockAdvance

SpecPipeline == PipelineInit /\ [][PipelineNext]_vars

HubInit ==
    GnssParked /\ WaterConstructed /\ RainConstructed /\ ImuConstructed /\ ProcessesStarted /\ AnalyzerParked /\ PipelineConstructed
    /\ HubConstructed /\ ReloadParked

HubNext ==
    \/ \E o \in ObserverIds : Connect(o)
    \/ \E o \in ObserverIds : PeerGone(o)
    \/ \E o \in ObserverIds : Disconnect(o)
    \/ BroadcastCall
    \/ \E d \in DispatchIds : SendNext(d)
    \/ FlushWake
    \/ HubTick

SpecHub == HubInit /\ [][HubNext]_vars

ReloadNext ==
    \/ StationsEdited
    \/ ReloadQuery
    \/ ReloadApply
    \/ ReloadAssign
    \/ ReloadFailed
    \/ MqttConnect
    \/ OnConnectSubscribe
    \/ MqttDisconnect

ReloadInit ==
    GnssParked /\ WaterConstructed /\ RainConstructed /\ ImuConstructed /\ ProcessesStarted /\ AnalyzerParked /\ PipelineConstructed
    /\ HubConstructed /\ ReloadConstructed

SpecReload == ReloadInit /\ [][ReloadNext]_vars

\* the pass is a task of the running event loop and on_connect a callback of
\* the running network thread: each takes its next step when it has one.
\* Edits of the stations, failures, connects and disconnects are up to the
\* environment.
ReloadFairness ==
    /\ WF_vars(ReloadQuery)
    /\ WF_vars(ReloadApply)
    /\ WF_vars(ReloadAssign)
    /\ WF_vars(OnConnectSubscribe)

SpecReloadLive == ReloadInit /\ [][ReloadNext]_vars /\ ReloadFairness

ShutdownInit ==
    GnssParked /\ WaterConstructed /\ RainConstructed /\ ImuConstructed /\ ProcessesStarted
    /\ AnalyzerParked /\ PipelineConstructed /\ HubConstructed /\ ReloadParked

ShutdownNext ==
    \/ ReloadLoopWake
    \/ ReloadLoopSleep
    \/ FrameScheduled
    \/ PipelineFinished
    \/ \E in_pass \in BOOLEAN : KeyboardInterruptRaised(in_pass)
    \/ RunLoopStop
    \/ RunDisconnect
    \/ RunReturn
    \/ FlushTaskCreated
    \/ FlushLoopStep
    \/ WebShutdown
    \/ FlushCancelled
    \/ WebExit

\* the main thread goes on through the except clause of run, and a task
\* that was cancelled is resumed with the CancelledError; when a process is
\* told to stop, and what the loops do until then, is up to the environment
ShutdownFairness ==
    /\ WF_vars(RunLoopStop)
    /\ WF_vars(RunDisconnect)
    /\ WF_vars(RunReturn)
    /\ WF_vars(FlushCancelled)
    /\ WF_vars(WebExit)

SpecShutdown == ShutdownInit /\ [][ShutdownNext]_vars /\ ShutdownFairness

(***************************************************************************)
(* GNSS: properties                                                        *)
(***************************************************************************)
RECURSIVE RunPoints(_)
RunPoints(r) == IF r = <<>> THEN <<>> ELSE <<Head(r).wgs>> \o RunPoints(Tail(r))

\* C1: process_gngga never returns a gnss_processed record while the
\* processor is in AWAITING_CANDIDATES: whenever the last call returned
\* gnss_processed, the state was ORIGIN_LOCKED when the call was entered and
\* is ORIGIN_LOCKED since.
C1_NoProcessedWhileAwaiting ==
    result.type = "gnss_processed" =>
        /\ call_state = "ORIGIN_LOCKED"
        /\ state = "ORIGIN_LOCKED"

\* a processed record returned by a processor that first collected candidates
\* and met low-quality frames
C1_Witness ==
    /\ result.type = "gnss_processed"
    /\ Len(run) >= 1
    /\ stats.low_quality_rejected > 0

\* C4: once origin_locked has been emitted, every later gnss_processed record
\* is computed with the rotation matrix and the ECEF origin of that lock,
\* whenever the load scheduled at construction completes.
C4_OriginStableAfterLock ==
    (lock_origin.set /\ result.type = "gnss_processed") =>
        /\ result.R = lock_origin.R
        /\ result.ecef_origin = lock_origin.ecef

\* C5: N accepted frames (parseable, quality >= Q_min) handled by the origin
\* collection from an empty candidate list, with dispersion <= max_spread_m,
\* give origin_collecting with count 1..N-1 and then one origin_locked that
\* carries the centroid, and the state is ORIGIN_LOCKED afterwards; there is
\* never an N+1-th event in such a run.
C5_LockSuccess ==
    /\ Len(run) <= RequiredPoints
    /\ \A i \in 1..Len(run) :
          i < RequiredPoints =>
              run[i].res = [type |-> "origin_collecting", count |-> i, target |-> RequiredPoints]
    /\ (Len(run) = RequiredPoints /\ SpreadOk(RunPoints(run))) =>
          /\ run[RequiredPoints].res.type = "origin_locked"
          /\ run[RequiredPoints].res.lat = SumOf(RunPoints(run), "lat")
          /\ run[RequiredPoints].res.lon = SumOf(RunPoints(run), "lon")
          /\ run[RequiredPoints].res.h = SumOf(RunPoints(run), "h")
          /\ state = "ORIGIN_LOCKED"

\* the lock has just been emitted for N fixes that are not all the same point
C5_Witness ==
    /\ result.type = "origin_locked"
    /\ Len(run) = RequiredPoints
    /\ run[RequiredPoints].res = result
    /\ run[1].res.type = "origin_collecting"
    /\ run[1].wgs # run[RequiredPoints].wgs
    /\ state = "ORIGIN_LOCKED"

\* C6: when the N-th candidate is accepted and the dispersion exceeds
\* max_spread_m, the call returns origin_reset, the candidate list is empty,
\* the state is still AWAITING_CANDIDATES with no origin, origin_resets has
\* grown by exactly 1; and the next accepted candidate is counted as 1.
C6_OriginReset ==
    [][ /\ ( /\ nframes' # nframes
             /\ Len(origin_candidates') # Len(origin_candidates)
             /\ Len(origin_candidates) = RequiredPoints - 1
             /\ ~SpreadOk(RunPoints(run')) )
          => /\ result'.type = "origin_reset"
             /\ origin_candidates' = <<>>
             /\ state' = "AWAITING_CANDIDATES"
             /\ origin' = NoOrigin
             /\ stats'.origin_resets = stats.origin_resets + 1
        /\ ( /\ nframes' # nframes
             /\ result.type = "origin_reset"
             /\ run' # run )
          => /\ result' = [type |-> "origin_collecting", count |-> 1, target |-> RequiredPoints]
             /\ Len(origin_candidates') = 1
      ]_vars

\* a reset has happened and collection has restarted
C6_Witness ==
    /\ stats.origin_resets = 1
    /\ Len(run) = 1
    /\ result.type = "origin_collecting"
    /\ result.count = 1
    /\ state = "AWAITING_CANDIDATES"
    /\ origin = NoOrigin

\* C7: when the load of the persisted origin completes, the processor enters
\* ORIGIN_LOCKED with the stored lat/lon/h, rotation matrix and ECEF origin
\* iff the row exists and carries both a rotation matrix and an ECEF origin;
\* an absent row, a row without them and a failed load leave state and
\* origin as they are; and a frame can be processed while the load is in
\* flight.
C7_StartupRecovery ==
    /\ [][ (load_task \in {"scheduled", "fetched"} /\ load_task' \notin {"scheduled", "fetched"}) =>
             IF /\ load_task' # "failed"
                /\ load_row.present
                /\ load_row.rotation_matrix # <<>>
                /\ load_row.ecef_origin # <<>>
             THEN /\ state' = "ORIGIN_LOCKED"
                  /\ origin' = [set |-> TRUE, lat |-> load_row.lat, lon |-> load_row.lon,
                                h |-> load_row.h, R |-> load_row.rotation_matrix,
                                ecef |-> load_row.ecef_origin]
             ELSE /\ state' = state
                  /\ origin' = origin
         ]_vars
    /\ []((load_task \in {"scheduled", "fetched"} /\ nframes < MaxFrames) => ENABLED ProcessFrame)

\* restored from the store after frames were handled, with fewer than N candidates
C7_Witness ==
    /\ load_task = "loaded"
    /\ state = "ORIGIN_LOCKED"
    /\ origin = StoredOrigin
    /\ nframes > 0
    /\ Len(origin_candidates) < RequiredPoints
    /\ ~lock_origin.set

(***************************************************************************)
(* Water and rain: properties                                              *)
(***************************************************************************)
\* the reading of a payload: its value field, or water_level when there is no value
WaterField(payload) ==
    IF payload.value.kind # "absent" THEN payload.value ELSE payload.water_level

WaterInRange(x) == x.kind = "num" /\ WaterValidMin <= x.v /\ x.v <= WaterValidMax

\* the value of the latest entry of the log whose reading is a number in
\* [valid_min, valid_max]; 0.0 (the constructed last value) when there is none
RECURSIVE MostRecentValid(_)
MostRecentValid(log) ==
    IF log = <<>> THEN 0
    ELSE IF WaterInRange(WaterField(log[Len(log)].payload))
         THEN WaterField(log[Len(log)].payload).v
         ELSE MostRecentValid(SubSeq(log, 1, Len(log) - 1))

RECURSIVE ValidEntries(_)
ValidEntries(log) ==
    IF log = <<>> THEN <<>>
    ELSE (IF WaterInRange(WaterField(Head(log).payload))
          THEN << <<Head(log).timestamp, WaterField(Head(log).payload).v>> >>
          ELSE <<>>) \o ValidEntries(Tail(log))

LastN(seq, n) == IF Len(seq) <= n THEN seq ELSE SubSeq(seq, Len(seq) - n + 1, Len(seq))

\* C8: a WaterEngine.process call whose reading is missing, not a number or
\* outside [valid_min, valid_max] emits the most recent valid value (to the 3
\* decimals the engine emits) with is_fallback = true, and the last valid
\* value and the history are still those of the valid readings so far.
C8_WaterFallback ==
    (water_log # <<>> /\ ~WaterInRange(WaterField(water_log[Len(water_log)].payload))) =>
        /\ water_result.is_fallback = TRUE
        /\ water_result.water_level = RoundRat(MostRecentValid(water_log), 1, WaterRoundUnit)
        /\ last_valid_value = MostRecentValid(water_log)
        /\ water_history = LastN(ValidEntries(water_log), WaterHistorySize)

\* C9: a WaterEngine.process call whose reading is a number v with
\* valid_min <= v <= valid_max makes v the last valid value, appends (t, v)
\* to the history and emits v (to 3 decimals) with is_fallback = false; the
\* history never holds more than history_size entries.
C9_WaterValid ==
    /\ Len(water_history) <= WaterHistorySize
    /\ (water_log # <<>> /\ WaterInRange(WaterField(water_log[Len(water_log)].payload))) =>
          LET v == WaterField(water_log[Len(water_log)].payload).v
              t == water_log[Len(water_log)].timestamp
          IN /\ last_valid_value = v
             /\ water_history # <<>>
             /\ water_history[Len(water_history)] = <<t, v>>
             /\ water_result = [water_level |-> RoundRat(v, 1, WaterRoundUnit),
                                is_fallback |-> FALSE]

Max0(x) == IF x > 0 THEN x ELSE 0

\* C10 as stated: with a numeric rainfall_mm, a supplied intensity is emitted
\* rounded to 2 decimals; without one the emitted intensity EQUALS
\* max(0, (rainfall - previous) / dt * 3600) when a previous sample exists and
\* 0 < dt < 3600, and is 0 otherwise.
C10_IntensityLaw_Exact ==
    LET rp == rain_call.payload
        dt == rain_call.timestamp - rain_call.prev_time
        diff == rp.rainfall_mm.v - rain_call.prev_rainfall
    IN (rain_calls > 0 /\ rp.rainfall_mm.kind = "num" /\ rp.intensity_mm_h.kind # "text") =>
          /\ rain_result.is_fallback = FALSE
          /\ IF rp.intensity_mm_h.kind = "num"
             THEN rain_result.intensity_mm_h = RoundRat(rp.intensity_mm_h.v, 1, RainRoundUnit)
             ELSE IF rain_call.had_prev /\ 0 < dt /\ dt < RainWindowSec
             THEN rain_result.intensity_mm_h * dt = Max0(diff) * RainWindowSec
             ELSE rain_result.intensity_mm_h = 0

\* C10 as amended: the derived intensity too is emitted rounded to 2 decimals.
C10_IntensityLaw_Rounded ==
    LET rp == rain_call.payload
        dt == rain_call.timestamp - rain_call.prev_time
        diff == rp.rainfall_mm.v - rain_call.prev_rainfall
    IN (rain_calls > 0 /\ rp.rainfall_mm.kind = "num" /\ rp.intensity_mm_h.kind # "text") =>
          /\ rain_result.is_fallback = FALSE
          /\ IF rp.intensity_mm_h.kind = "num"
             THEN rain_result.intensity_mm_h = RoundRat(rp.intensity_mm_h.v, 1, RainRoundUnit)
             ELSE IF rain_call.had_prev /\ 0 < dt /\ dt < RainWindowSec
             THEN rain_result.intensity_mm_h
                    = (((2 * Max0(diff) * RainWindowSec) \div dt + RainRoundUnit)
                          \div (2 * RainRoundUnit)) * RainRoundUnit
             ELSE rain_result.intensity_mm_h = 0

\* rainfall 10.0 mm, then 15.0 mm 1800 s later with no intensity: 10.0 mm/h
C10_Witness ==
    /\ rain_calls = 2
    /\ rain_call.had_prev
    /\ rain_call.prev_rainfall = 10000
    /\ rain_call.payload = [rainfall_mm |-> Num(15000), intensity_mm_h |-> Absent]
    /\ rain_call.timestamp - rain_call.prev_time = 1800
    /\ rain_result = [rainfall_mm |-> 15000, intensity_mm_h |-> 10000, is_fallback |-> FALSE]

(***************************************************************************)
(* IMU processor                                                           *)
(***************************************************************************)
\* the value a frame supplies for an axis, under either of its two names
Supplied(a, b) == IF a.kind # "absent" THEN a ELSE b

ImuAxes(payload) ==
    <<Supplied(payload.ax, payload.accel_x), Supplied(payload.ay, payload.accel_y),
      Supplied(payload.az, payload.accel_z)>>

\* a frame that misses an acceleration or carries a value that is no number
ImuInvalid(payload) ==
    \/ \E n \in 1..3 : ImuAxes(payload)[n].kind # "num"
    \/ payload.gx.kind = "text"
    \/ payload.yaw.kind = "text"

\* C34: a frame that misses a required field or carries a non-numeric value
\* yields a record, never nothing, whose values are those of the last
\* successfully processed record and which carries is_fallback = true, and
\* leaves the processor's last-valid state unchanged (here for the IMU
\* processor).
C34_ImuFallback ==
    (imu_calls > 0 /\ ImuInvalid(imu_call.payload)) =>
        /\ imu_result # None
        /\ "is_fallback" \in DOMAIN imu_result
        /\ imu_result.is_fallback = TRUE
        /\ \A f \in DOMAIN imu_call.before : imu_result[f] = imu_call.before[f]
        /\ last_valid_data = imu_call.before

\* C35: a frame that supplies numeric ax, ay and az, zero included, yields a
\* record with those values and total_accel = sqrt(ax^2 + ay^2 + az^2),
\* whatever the frames before it were.
C35_ImuAccelFromFrame ==
    LET axes == ImuAxes(imu_call.payload) IN
    (/\ imu_calls > 0
     /\ \A n \in 1..3 : axes[n].kind = "num"
     /\ imu_call.payload.gx.kind # "text"
     /\ imu_call.payload.yaw.kind # "text") =>
        /\ imu_result.ax = axes[1].v
        /\ imu_result.ay = axes[2].v
        /\ imu_result.az = axes[3].v
        /\ imu_result.total_accel =
              SqrtRound(axes[1].v * axes[1].v + axes[2].v * axes[2].v + axes[3].v * axes[3].v)

(***************************************************************************)
(* Analyzer and selective write: properties                                *)
(***************************************************************************)
\* confirm steps per category as the settings declare them
\* ("confirmation": {"gnss": 3, "rain": 2, "water": 3, "imu": 1})
ConfirmSteps == [gnss |-> 3, rain |-> 2, water |-> 3, imu |-> 1]

\* the level the analyzer computes for a logged step before any filtering
CandidateLevel(e) ==
    CASE e.sensor = "gnss" -> GnssLevel(e.data, station_config)
      [] e.sensor = "rain" -> RainLevel(e.data, station_config)
      [] e.sensor = "water" -> WaterLevel(e.data, station_config)
      [] e.sensor = "imu" -> TiltLevel(e.data, station_config)

\* the steps of one category among the first i steps of the log
CategorySteps(log, i, sensor) ==
    SelectSeq(SubSeq(log, 1, i), LAMBDA e : e.sensor = sensor)

\* C2 (the "only if" half): an alert is emitted at a step only when the
\* candidate levels of the last k steps of its category, k the category's
\* confirm steps, are all equal to the alert's level, which is WARNING or
\* CRITICAL; in particular no alert is emitted before the k-th sample.
C2_AnalyzerDebounce ==
    \A i \in 1..Len(an_log) :
        an_log[i].alert # None =>
            LET mine == CategorySteps(an_log, i, an_log[i].sensor)
                k == ConfirmSteps[an_log[i].sensor]
            IN /\ an_log[i].alert.level \in {"WARNING", "CRITICAL"}
               /\ Len(mine) >= k
               /\ \A j \in (Len(mine) - k + 1)..Len(mine) :
                      CandidateLevel(mine[j]) = an_log[i].alert.level

\* C23: the confirmation counter of a (station, category) moves one step at
\* a time in both directions; with confirm steps >= 2 (rain 2, water 3) a
\* dangerous rain or water sample that is the first of its category, or
\* follows a sample whose candidate level is INFO with the counter at 0,
\* brings the counter to 1 only and emits no alert.
C23_SingleDangerNoAlert ==
    \A i \in 1..Len(an_log) :
        LET e == an_log[i]
            mine == CategorySteps(an_log, i, e.sensor)
        IN /\ e.sensor \in {"rain", "water"}
           /\ ConfirmSteps[e.sensor] >= 2
           /\ CandidateLevel(e) \in {"WARNING", "CRITICAL"}
           /\ \A j \in 1..(Len(mine) - 1) : CandidateLevel(mine[j]) = "INFO"
           => e.alert = None

\* C3: for every frame that yields a processed record, once its pipeline has
\* ended a sensor_data record was written iff an alert was raised for the
\* frame or now - last_save_time >= the save interval of the type (the
\* write being what refreshes last_save_time).  A record counts as written
\* as soon as the pipeline has handed it to the data session.
C3_SelectiveWrite ==
    \A t \in TaskIds :
        tasks[t].pc = "done" =>
            LET k == tasks[t] IN
            k.added <=> (k.alert # None
                         \/ k.ts - k.last_saved >= SaveInterval(k.sensor_type))


(***************************************************************************)
(* Broadcast hub                                                           *)
(***************************************************************************)
Urgent(message) == message.level \in {"WARNING", "CRITICAL"}

\* the sensor_data events of one key that a delivered message carries, the
\* message itself (0) or the entries of a batch_update
SensorDataIn(msg, key, counted(_)) ==
    {m \in 0..Len(msg.data) :
        LET e == IF m = 0 THEN msg ELSE msg.data[m]
        IN e.type = "sensor_data" /\ e.key = key /\ counted(e)}

\* the number of counted sensor_data events of one key among the deliveries
\* a..b to observer o
SensorDataCount(o, key, a, b, counted(_)) ==
    Cardinality({<<n, m>> \in (a..b) \X (0..MaxBroadcasts) :
                    m \in SensorDataIn(delivered[o][n].msg, key, counted)})

\* in every window the deliveries a..b to o span (W = 0.5 s times the
\* difference of their ticks) at most ceil(W / 0.1 s) + 1 counted events of
\* the key were delivered
ThrottleBound(counted(_)) ==
    \A o \in ObserverIds : \A key \in HubSensorTypes :
        \A a \in 1..Len(delivered[o]) : \A b \in a..Len(delivered[o]) :
            SensorDataCount(o, key, a, b, counted)
                <= 5 * (delivered[o][b].time - delivered[o][a].time) + 1

AnyEvent(e) == TRUE
NotUrgent(e) == ~Urgent(e)

C28_UrgentStatusNotThrottled ==
    [][ (/\ Len(hub_calls') = Len(hub_calls) + 1
         /\ hub_calls'[Len(hub_calls')].type = "station_status"
         /\ hub_calls'[Len(hub_calls')].risk_level \in {"WARNING", "CRITICAL"})
        => \E d \in DispatchIds :
              /\ dispatches'[d] # dispatches[d]
              /\ dispatches'[d].msg = hub_calls'[Len(hub_calls')] ]_vars

\* C33: a station_status event that carries no level WARNING or CRITICAL is
\* sent to the observers when at least 0.5 s (one tick) have passed since the
\* last station_status sent for its station, or none was sent yet, and is
\* discarded otherwise.
C33_StatusThrottleHalfSecond ==
    [][ (/\ Len(hub_calls') = Len(hub_calls) + 1
         /\ hub_calls'[Len(hub_calls')].type = "station_status"
         /\ hub_calls'[Len(hub_calls')].level \notin {"WARNING", "CRITICAL"})
        => ((\E d \in DispatchIds :
                /\ dispatches'[d] # dispatches[d]
                /\ dispatches'[d].msg = hub_calls'[Len(hub_calls')])
            <=> (last_broadcast_time = 0 \/ hub_now - last_broadcast_time >= 1)) ]_vars

\* the dispatches whose _send_to_all has returned
Returned == {d \in DispatchIds : dispatches[d].pc = "returned"}

\* the observers a dispatch owed a delivery attempt: in the active set when
\* it began and connected throughout
Owed(d) == {o \in dispatches[d].snapshot : observers[o] = "open"}

\* the observers whose send failed in dispatch d
FailedIn(d) == {dispatches[d].disconnected[n] : n \in 1..Len(dispatches[d].disconnected)}

\* C12: every dispatched event gets a delivery attempt to every observer that
\* was in the active set when the dispatch began and is still connected,
\* whatever connects, disconnects and other dispatches interleave with it.
C12_AttemptToEveryObserver ==
    \A d \in Returned : Owed(d) \subseteq dispatches[d].attempted

\* C13: when a send fails during a broadcast the failing observer is removed
\* from the active set, every remaining observer still receives the event
\* and no other observer is removed.
C13_SendFailurePolicy ==
    \A d \in Returned :
        FailedIn(d) # {} =>
            /\ \A o \in FailedIn(d) : \A n \in 1..Len(active_connections) : active_connections[n] # o
            /\ \A o \in Owed(d) :
                  /\ \E n \in 1..Len(delivered[o]) : delivered[o][n].msg = dispatches[d].msg
                  /\ \E n \in 1..Len(active_connections) : active_connections[n] = o

\* the messages of a list
Members(list) == {list[n] : n \in 1..Len(list)}

\* the sensor_data messages of the batches an observer received
BatchedTo(o, n) ==
    IF delivered[o][n].msg.type = "batch_update" THEN Members(delivered[o][n].msg.data) ELSE {}

\* C40: the buffer holds at most one sensor_data message per key, the newest
\* one accepted for it; a message leaves the buffer only when a newer one of
\* its key replaces it or when a flush takes the whole buffer into one batch
\* and leaves the buffer empty; no observer receives a message in two
\* batches, also when messages arrive while a batch is being sent.
C40_Coalescing ==
    /\ [](/\ \A m, n \in 1..Len(message_buffer) :
                m # n => message_buffer[m].key # message_buffer[n].key
          /\ \A b \in Members(message_buffer) : \A c \in Members(hub_calls) :
                (BroadcastRoute(c) = "buffer" /\ c.key = b.key) => c.id <= b.id
          /\ \A o \in ObserverIds : \A m, n \in 1..Len(delivered[o]) :
                m # n => BatchedTo(o, m) \cap BatchedTo(o, n) = {})
    /\ [][\A b \in Members(message_buffer) :
            \/ b \in Members(message_buffer')
            \/ \E c \in Members(message_buffer') : c.key = b.key /\ c.id > b.id
            \/ /\ message_buffer' = <<>>
               /\ dispatches'[FlushDispatch].msg = BatchPayload(message_buffer)]_vars

\* a batch with the first message is being sent, an observer has received
\* it, and the second message, which arrived meanwhile, waits in the buffer
C40_Witness ==
    /\ buffer_task.pc = "sending"
    /\ Len(hub_calls) = 2
    /\ Members(dispatches[FlushDispatch].msg.data) = {hub_calls[1]}
    /\ Members(message_buffer) = {hub_calls[2]}
    /\ \E o \in ObserverIds : \E n \in 1..Len(delivered[o]) : hub_calls[1] \in BatchedTo(o, n)

(***************************************************************************)
(* The analyzer on unchecked inputs                                        *)
(***************************************************************************)
\* C15: no analyzer operation raises: the four analyze_* methods return an
\* alert or none for every record and config, and the long-term analysis
\* returns a result whose status is success, insufficient_data or error.
C15_AnalyzerNeverRaises ==
    IF an_last.op = "long_term"
    THEN an_last.outcome.type \in {"success", "insufficient_data", "error"}
    ELSE \/ an_last.outcome = None
         \/ /\ an_last.outcome.type = "alert"
            /\ an_last.outcome.level \in {"WARNING", "CRITICAL"}

\* a method was handed a sample whose try block raises
C15_Witness ==
    /\ an_last.op \in SensorTypes
    /\ an_last.input # <<>>
    /\ TryBody(an_last.op, an_last.input[1], station_config) = Raised
    /\ an_last.outcome = None

(***************************************************************************)
(* The orchestrator                                                        *)
(***************************************************************************)
\* C14: of two frames that arrived on the same device's topic the processor
\* is called for the earlier one first (frames are numbered in the order the
\* broker thread received them), however the broker callbacks and the
\* process_pipeline coroutines interleave.
C14_PerDeviceOrder ==
    \A i, j \in 1..Len(process_log) :
        /\ process_log[i].sensor_type = process_log[j].sensor_type
        /\ process_log[i].frame < process_log[j].frame
        => i < j

\* two frames of one device were processed, the second while the first
\* frame's coroutine was still awaiting the config store
C14_Witness ==
    /\ Len(process_log) >= 2
    /\ process_log[1].sensor_type = process_log[2].sensor_type
    /\ process_log[1].frame < process_log[2].frame
    /\ \E t \in TaskIds : tasks[t].frame = process_log[1].frame /\ tasks[t].pc = "heartbeat"

\* the events of one kind broadcast was called with for a frame's sensor
EventsFor(type, k) ==
    {n \in 1..Len(hub_calls) : hub_calls[n].type = type /\ hub_calls[n].id = k.frame}

\* the coroutines that are past step 4, at or after their first store access
PastStep4 == {t \in TaskIds : tasks[t].pc \in {"heartbeat", "commit", "done"}}

\* C16: for every frame that yields a processed record a sensor_data event
\* has been handed to the hub before the frame's first persistence write
\* (heartbeat, Sensor Data Record, Alert Record) is attempted.
C16_SensorDataBeforePersistence ==
    \A t \in PastStep4 : EventsFor("sensor_data", tasks[t]) # {}

\* C17: for every frame that yields a processed record, once its coroutine
\* has ended exactly one station_status event was broadcast, with risk_level
\* the alert's level when it is WARNING or CRITICAL and LOW otherwise.
C17_OneStationStatus ==
    \A t \in TaskIds :
        tasks[t].pc = "done" =>
            /\ Cardinality(EventsFor("station_status", tasks[t])) = 1
            /\ \A n \in EventsFor("station_status", tasks[t]) :
                  hub_calls[n].risk_level =
                      IF tasks[t].is_dangerous THEN tasks[t].alert.level ELSE "LOW"

\* the rows stored for a frame
RowsOf(rows, k) == {n \in 1..Len(rows) : rows[n].frame = k.frame}

\* C18: for every frame whose coroutine has ended with the data store
\* available: if the analyzer returned an alert, exactly one Alert Record
\* with the alert's level, category and message and resolved = false was
\* written together with a Sensor Data Record of the frame; if it returned
\* none, no Alert Record was written.
C18_AlertRecord ==
    \A t \in TaskIds :
        LET k == tasks[t] IN
        (k.pc = "done" /\ ~k.commit_failed) =>
            IF k.alert # None
            THEN /\ Cardinality(RowsOf(alert_rows, k)) = 1
                 /\ \A n \in RowsOf(alert_rows, k) :
                       /\ alert_rows[n].level = k.alert.level
                       /\ alert_rows[n].category = k.alert.category
                       /\ alert_rows[n].message = k.alert.message
                       /\ alert_rows[n].is_resolved = FALSE
                 /\ RowsOf(sensor_rows, k) # {}
            ELSE RowsOf(alert_rows, k) = {}

(***************************************************************************)
(* Periodic writes under concurrent pipelines                              *)
(***************************************************************************)
\* C24: two sensor_data records of one sensor type that were both written
\* for the periodic reason (no alert) have timestamps at least the save
\* interval of the type apart, however the process_pipeline coroutines
\* interleave at their awaits.
C24_PeriodicSpacing ==
    \A i, j \in 1..Len(sensor_rows) :
        /\ i < j
        /\ sensor_rows[i].sensor_type = sensor_rows[j].sensor_type
        /\ sensor_rows[i].periodic
        /\ sensor_rows[j].periodic
        => Abs(sensor_rows[j].timestamp - sensor_rows[i].timestamp)
              >= SaveInterval(sensor_rows[i].sensor_type)

(***************************************************************************)
(* Failures of the two stores                                              *)
(***************************************************************************)
\* C25: a failure of the heartbeat in the config store does not keep the rows
\* of the frame from the data store: once the coroutine of a frame has ended
\* without a data-store failure, the Sensor Data Record it decided to write
\* is stored and, if an alert was raised, so is the Alert Record.
C25_HeartbeatIndependent ==
    \A t \in TaskIds :
        LET k == tasks[t] IN
        (k.pc = "done" /\ ~k.commit_failed) =>
            /\ k.save_data_now => RowsOf(sensor_rows, k) # {}
            /\ k.is_dangerous => RowsOf(alert_rows, k) # {}

\* C26: last_save_time of a type is the timestamp of a Sensor Data Record of
\* that type that was committed, or of one whose commit is still under way;
\* a failed commit leaves the previous value.
C26_SaveTimeOnlyOnCommit ==
    \A st \in SensorTypes :
        \/ last_save_time[st] = 0
        \/ \E n \in 1..Len(sensor_rows) :
              sensor_rows[n].sensor_type = st /\ sensor_rows[n].timestamp = last_save_time[st]
        \/ \E t \in TaskIds :
              /\ tasks[t].pc = "commit"
              /\ tasks[t].sensor_type = st
              /\ tasks[t].ts = last_save_time[st]

(***************************************************************************)
(* Heartbeat                                                               *)
(***************************************************************************)
\* C31: for every frame that yields a processed record the heartbeat updates
\* the station (last_update = now, status = online) and the device
\* (last_data_time = now) alike, whether or not a Sensor Data Record is
\* written: once the station is online, the device's last_data_time is the
\* station's last_update.
C31_HeartbeatBoth ==
    station_status.status = "online" =>
        /\ station_status.last_update >= PipelineEpoch
        /\ station_status.last_data_time = station_status.last_update

(***************************************************************************)
(* Persistence of the origin                                               *)
(***************************************************************************)
\* C29: when the save of the origin row fails at the lock, the processor
\* stays ORIGIN_LOCKED with its origin and the save is retried later: once
\* the origin is locked from candidates, the stored row eventually holds the
\* processor's origin.
C29_OriginEventuallyPersisted ==
    (lock_origin.set /\ state = "ORIGIN_LOCKED") ~> (db_origin = RowOf(origin))

\* a frame completes the candidates and the origin is locked from them
LockFromCandidates ==
    /\ state = "AWAITING_CANDIDATES"
    /\ state' = "ORIGIN_LOCKED"
    /\ result'.type = "origin_locked"

\* C30: one save of the origin row is started by each lock reached from
\* candidates and by nothing else (not by a frame processed after the lock,
\* not by a lock restored from the store), never more than one is pending,
\* and the device's one row changes only when a save commits, which leaves
\* it holding the processor's origin.
C30_OneSavePerLock ==
    [][ /\ LockFromCandidates => save_tasks' = save_tasks + 1
        /\ ~LockFromCandidates => save_tasks' <= save_tasks
        /\ save_tasks' <= 1
        /\ db_origin' # db_origin =>
              /\ save_tasks' = save_tasks - 1
              /\ db_origin' = RowOf(origin) ]_vars

\* a lock from candidates whose save has committed over a row the store
\* already held, with a frame processed after the lock
C30_Witness ==
    /\ lock_origin.set
    /\ load_task = "no_matrix"
    /\ save_tasks = 0
    /\ db_origin = RowOf(lock_origin)
    /\ result.type = "gnss_processed"

(***************************************************************************)
(* GNSS: processing after the lock                                         *)
(***************************************************************************)
\* the adjacent pairs of the buffer whose velocity is defined
ValidPairs(h) == {i \in 2..Len(h) : h[i].ts - h[i-1].ts >= MinDtTicks}

\* C36: the ring buffer holds at most W+1 points; the reported velocity is
\* the mean over the adjacent pairs of the buffer only when the buffer is
\* full, and the raw velocity of the last pair whenever the buffer holds
\* fewer than W+1 points.
C36_SmoothingWhenFull ==
    /\ Len(history) <= FilterWindowSize + 1
    /\ result.type = "gnss_processed" =>
          IF Len(history) = FilterWindowSize + 1
          THEN result.vel = ValidPairs(history)
          ELSE result.vel = {Len(history)}

\* C37: in ORIGIN_LOCKED every accepted frame is appended to the ring buffer
\* and yields a gnss_processed record, the first accepted frame after the
\* lock and a frame less than 0.01 s after the one before it included.
C37_RecordForEveryAcceptedFrame ==
    [][ (/\ nframes' = nframes + 1
         /\ state = "ORIGIN_LOCKED"
         /\ origin.set
         /\ history' # history)
        => result'.type = "gnss_processed" ]_vars

ClassLevel(class) ==
    IF class \in {"Extremely Rapid", "Very Rapid", "Extremely rapid", "Very rapid"} THEN "CRITICAL"
    ELSE IF class \in {"Rapid", "Moderate"} THEN "WARNING"
    ELSE "INFO"

\* C21: the GNSS level is a function of the velocity class of the latest
\* record only: Extremely Rapid / Very Rapid give CRITICAL, Rapid / Moderate
\* give WARNING, every other class gives INFO and no alert, whatever the
\* total displacement of the record.
C21_LevelFromVelocityClass ==
    \A i \in 1..Len(an_log) :
        an_log[i].sensor = "gnss" =>
            LET e == an_log[i]
                c == ClassLevel(_classify_cruden_varnes(SpeedOf(e.data), station_config))
            IN /\ GnssLevel(e.data, station_config) = c
               /\ e.alert # None => e.alert.level = c
               /\ c = "INFO" => e.alert = None

(***************************************************************************)
(* Long-term classification                                                *)
(***************************************************************************)
\* the history of the scenario: 0.1 m along east in 30 days, two points
C22_Case ==
    /\ an_last.op = "long_term"
    /\ station_config = EmptyConfig
    /\ an_last.outcome.type = "success"
    /\ an_last.outcome.total_displacement_mm = 100
    /\ an_last.outcome.duration_hours = 720

\* C22: a GNSS history whose first-to-last change is 0.1 m in 30 days (about
\* 1216.7 mm a year), with no classification table configured and fewer than
\* 5 speed samples, is analysed as classification "Slow", trend "stable"
\* and risk level "LOW".
C22_LongTermSlowLow ==
    C22_Case =>
        /\ an_last.outcome.classification = "Slow"
        /\ an_last.outcome.trend = "stable"
        /\ an_last.outcome.risk_level = "LOW"

(***************************************************************************)
(* IMU shock                                                               *)
(***************************************************************************)
\* details.val of an alert, or -1 when the details hold no val
DetailsVal(alert) ==
    IF "val" \in DOMAIN alert.details THEN alert.details["val"] ELSE -1

\* C20: every IMU record whose total_accel exceeds shock_threshold_ms2 yields
\* at once (imu confirm steps = 1) one alert of level CRITICAL and category
\* "shock" whose details.val is the record's total_accel; a record whose
\* total_accel is at most the threshold yields no shock alert.
C20_ImuShock ==
    \A i \in 1..Len(an_log) :
        an_log[i].sensor = "imu" =>
            LET e == an_log[i]
                shock_thresh == _get_cfg(station_config, "ImuAlerting", "shock_threshold_ms2", 200)
            IN IF e.data.total_accel > shock_thresh
               THEN /\ e.alert # None
                    /\ e.alert.level = "CRITICAL"
                    /\ e.alert.category = "shock"
                    /\ DetailsVal(e.alert) = e.data.total_accel
               ELSE e.alert = None \/ e.alert.category # "shock"

(***************************************************************************)
(* Topic reconciliation                                                    *)
(***************************************************************************)
\* C19: after every reconciliation pass that completes, while the client is
\* connected and no on_connect is running, the set of topics subscribed at
\* the broker equals the key set of the live binding map.
C19_SubscriptionsMatchMap ==
    (reload_passes > 0 /\ reload_task.pc = "query" /\ mqtt_connected /\ on_connect_pending = {})
        => broker_subs = topic_map

\* C32: processor state survives reconciliation.  No pass removes or
\* replaces an entry of the processor cache, and every topic of the live map
\* is bound to the cache's instance of its key: a device that appears again,
\* also after its topic was removed or changed, has the processor it had.
C32_ProcessorKept ==
    /\ [](\A t \in Topics :
            IF t \in topic_map
            THEN topic_procs[t] # 0 /\ topic_procs[t] = processors_cache[KeyOf(t)]
            ELSE topic_procs[t] = 0)
    /\ [][\A k \in ProcKeys :
            processors_cache[k] # 0 => processors_cache'[k] = processors_cache[k]]_vars

\* the rain topic was bound, removed by a later pass and bound again by the
\* third, to the instance the first pass constructed
C32_Witness ==
    /\ reload_passes = 3
    /\ "st1/rain" \in topic_map
    /\ topic_procs["st1/rain"] = 1
    /\ processors_cache["1_rain"] = 1

C27_EventuallySubscribed ==
    \A topic \in Topics :
        (mqtt_connected /\ reload_passes > 0 /\ reload_task.pc = "query"
            /\ on_connect_pending = {} /\ topic \in topic_map)
        ~> (topic \in broker_subs \/ topic \notin topic_map \/ ~mqtt_connected)

====
